---- MODULE Spec2Model ----
(***************************************************************************)
(* Request orchestration of the OCR client: the rate limiter gate          *)
(* (_apply_rate_limit_sync / _apply_rate_limit_async) and the dispatcher   *)
(* loop (_make_api_request_sync / _make_api_request_async,                 *)
(* APIRequester.request_sync) of one client shared by several callers.     *)
(* Time is a discrete, non-decreasing clock; sleeps last at least their    *)
(* argument.  The page pipeline (DeepSeekOCR.parse / parse_async,          *)
(* VLMClient.parse) runs one document over the dispatcher, whose call is   *)
(* one step there: it returns a response or raises.                        *)
(***************************************************************************)
EXTENDS Integers, Sequences, FiniteSets, TLC

\* ---------------------------------------------------------------- bounds
NumCallers == 2
MaxTime == 3
MaxRetries == 2
MaxDelay == 1
MaxBase == 1
MaxSends == 2
MaxPages == 2
MaxParallel == 2
MaxTextLen == 2
MaxThreshold == 2
MaxFilePages == 3
MaxPieces == 3
MaxCleanings == 2

MaxFiles == 2
MaxBatchRetries == 1
MaxConcurrent == 2

MaxListLen == 5

Callers == 1..NumCallers

\* ------------------------------------------------------------- constants
NoTime == -1
NoRead == -2
NoOne == 0
NoBody == 0
RateLimited == 429
StatusOK == 200
OtherStatuses == {400, 500}

VARIABLES
    users,              \* the callers that use the client
    config,             \* request_delay, enable_rate_limit_retry, max_rate_limit_retries, rate_limit_retry_delay
    kind,               \* caller -> "sync" (native thread) or "async" (event-loop task)
    now,                \* time.time()
    last_request_time,  \* self._last_request_time, NoTime for None
    sync_lock,          \* holder of self._sync_lock (threading.Lock), NoOne when free
    async_lock,         \* holder of self._async_lock (asyncio.Lock), NoOne when free
    pc,                 \* position of each caller in send()
    attempt,            \* loop variable of the retry loop
    wake,               \* end of the caller's current sleep
    readVal,            \* last_request_time as read by the caller inside the gate, NoRead outside it
    posts,              \* POSTs made by the caller's current send()
    sleeps,             \* backoff delays slept by the caller's current send(), in order
    rateLimits,         \* 429 responses received by the caller's current send()
    lastResponse,       \* the outcome of the last answered POST of the caller's current send()
    result,             \* what send() returned or raised
    sends,              \* send() calls started on the client
    lastPostTime,       \* start time of the latest POST of the client, NoTime if none
    acquires,           \* passages of the rate limiter gate made by the caller's current send()
    doc,                \* the document call: client class, mode, concurrency_num, len(images), the response of each page's calls
    ocr_config,         \* fallback_enabled, fallback_mode, min_output_threshold
    run,                \* the strategy of the current document call
    page,               \* page -> state of its task, its text, its dispatcher calls, how its fallback ended
    all_texts,          \* all_texts of the current document call
    outcome,            \* what the current document call returned or raised
    seqOutcome,         \* what the sequential call on the same document returned or raised
    pdf,                \* the file handed to the renderer: its kind and len(doc)
    pages_arg,          \* the `pages` argument: None, an int or a list of ints
    render,             \* what file_to_base64 returned or raised
    requests,           \* the images the page loop has made its request for, in order
    cfg,                \* the arguments of OCRConfig(...)
    client,             \* whether the configuration, and with it the client, exists
    trial,              \* a retry policy and the outcomes of the POSTs of one send()
    verdict,            \* dispatcher implementation -> what it made of the trial
    raw_text,           \* the text handed to the first _clean_output call
    cleaned,            \* the results of the _clean_output calls made so far, each on the result before
    batch,              \* the BatchProcessor and the files of one process_batch call
    task,               \* file -> the state of its process_with_semaphore task
    batch_results,      \* `results` of process_batch: the BatchResults gathered so far
    summary             \* the BatchSummary returned

clientVars == <<users, config, kind, now, last_request_time, sync_lock, async_lock, pc,
                attempt, wake, readVal, posts, sleeps, rateLimits, lastResponse, result,
                sends, lastPostTime, acquires>>

pipeVars == <<doc, ocr_config, run, page, all_texts, outcome, seqOutcome>>

trialVars == <<trial, verdict>>

batchVars == <<batch, task, batch_results, summary>>

cleanVars == <<raw_text, cleaned>>

setupVars == <<pdf, pages_arg, render, requests, cfg, client, trialVars, cleanVars, batchVars>>

vars == <<clientVars, pipeVars, setupVars>>

NoResult == [kind |-> "none", status |-> 0, body |-> NoBody]

\* the outcomes of one POST: a status-200 response with a JSON body or with a
\* body that is not JSON, a 429, another status, a transport timeout
Responses ==
    {[outcome |-> "ok", status |-> StatusOK],
     [outcome |-> "malformed", status |-> StatusOK],
     [outcome |-> "rate_limited", status |-> RateLimited],
     [outcome |-> "timeout", status |-> 0]}
    \cup {[outcome |-> "error", status |-> s] : s \in OtherStatuses}

NoResponse == [outcome |-> "none", status |-> 0]

\* get_retry_delay with `*` for `**`
get_retry_delay_Product(retry_delay, a) == retry_delay * (2 * a)

\* get_retry_delay with the attempt taken as 1-indexed
get_retry_delay_OneIndexed(retry_delay, a) == retry_delay * (2 ^ (a + 1))

\* RateLimiter.get_retry_delay: retry_delay * (2 ** attempt)
get_retry_delay(retry_delay, a) == retry_delay * (2 ^ a)

\* a lock that every caller finds free
LockHolder_Free(k) == NoOne

\* the lock a caller of the given kind takes in the gate
LockHolder(k) == IF k = "sync" THEN sync_lock ELSE async_lock

\* ------------------------------------------------------ texts and pages
\* A text is a sequence of tokens: a letter, a blank, one of the two tags
\* _clean_output removes, or the four letters of str(None).
Tags == {"<|ref|>", "<|det|>"}
Blanks == {" "}
Tokens == {"a", " ", "<|ref|>"}

\* len() of one token
TokenLen(tok) == IF tok \in Tags THEN 7 ELSE IF tok = "None" THEN 4 ELSE 1

RECURSIVE Length(_)
\* len(text)
Length(text) == IF text = << >> THEN 0 ELSE TokenLen(Head(text)) + Length(Tail(text))

\* the texts a response can carry
RawTexts == UNION {[1..n -> Tokens] : n \in 0..MaxTextLen}

\* a `content` that is JSON null
PyNone == <<"NoneType">>

\* str(content)
Str(content) == IF content = PyNone THEN <<"None">> ELSE content

RECURSIVE LStrip(_)
LStrip(text) ==
    IF text # << >> /\ Head(text) \in Blanks THEN LStrip(Tail(text)) ELSE text

RECURSIVE RStrip(_)
RStrip(text) ==
    IF text # << >> /\ text[Len(text)] \in Blanks
    THEN RStrip(SubSeq(text, 1, Len(text) - 1))
    ELSE text

\* _clean_output: the two re.sub calls, then strip()
clean_output(text) == LStrip(RStrip(SelectSeq(text, LAMBDA tok : tok \notin Tags)))

PageSeparator == "---"

RECURSIVE Join_Trailing(_)
\* the separator written after every text, the last one included
Join_Trailing(parts) ==
    IF parts = << >> THEN << >>
    ELSE parts[1] \o <<PageSeparator>> \o Join_Trailing(Tail(parts))

RECURSIVE Join(_)
\* page_separator.join(all_texts)
Join(parts) ==
    IF parts = << >> THEN << >>
    ELSE IF Len(parts) = 1 THEN parts[1]
    ELSE parts[1] \o <<PageSeparator>> \o Join(Tail(parts))

\* what one dispatcher call of a page gives: a response whose first choice
\* holds a text or null, a response without choices, a response whose first
\* choice has no message, or an exception raised by the dispatcher
PageResponses(texts) ==
    {[kind |-> "content", content |-> t] : t \in texts}
    \cup {[kind |-> "null", content |-> PyNone],
          [kind |-> "nochoices", content |-> << >>],
          [kind |-> "nomessage", content |-> << >>],
          [kind |-> "raises", content |-> << >>]}

NoChoices == [kind |-> "nochoices", content |-> << >>]

OCRModes == {"free_ocr", "grounding", "ocr_image"}

\* OCRConfig defaults, with a threshold the texts can fall below
DefaultOCRConfig ==
    [fallback_enabled |-> TRUE, fallback_mode |-> "grounding", min_output_threshold |-> 1]

\* fallback_mode is any string; min_output_threshold is validated >= 0
OCRConfigs ==
    [fallback_enabled : BOOLEAN,
     fallback_mode : {"grounding", "bogus"},
     min_output_threshold : 0..MaxThreshold]

NoOutcome == [kind |-> "none", text |-> << >>, page |-> 0]

\* rank: the position of the page among the finished tasks, 0 while it runs;
\* exc: the exception that ended the page's task
QueuedPage ==
    [st |-> "queued", text |-> << >>, calls |-> 0, fb |-> "none", rank |-> 0,
     collected |-> FALSE, exc |-> "none"]

\* no document call is running
NoDocument ==
    /\ doc = [flavor |-> "none", mode |-> "free_ocr", concurrency_num |-> 1,
              images |-> 0, script |-> << >>]
    /\ ocr_config = DefaultOCRConfig
    /\ run = "none"
    /\ page = << >>
    /\ all_texts = << >>
    /\ outcome = NoOutcome
    /\ seqOutcome = NoOutcome

\* the `pages` argument of the renderer: None, one page number or a list
AllPages == [kind |-> "none", int |-> 0, list |-> << >>]

\* the renderer has not been called
NotRendered == [kind |-> "idle", images |-> << >>]

\* the keyword arguments of a configuration that passes every check
ValidFields ==
    [class |-> "OCRConfig", api_key |-> "k", base_url |-> "u", dpi |-> 200, timeout |-> 1,
     max_tokens |-> 1, temperature |-> 0, min_output_threshold |-> 1,
     request_delay |-> 0, max_rate_limit_retries |-> 1,
     rate_limit_retry_delay |-> 1]

\* the three implementations of the dispatcher
Implementations == {"request_sync", "_make_api_request_sync", "_make_api_request_async"}

NoVerdict == [kind |-> "none", status |-> 0, body |-> NoBody, posts |-> 0, sleeps |-> << >>]

\* no trial of the dispatchers is set up
NoTrial ==
    /\ trial = [enable_rate_limit_retry |-> TRUE, max_rate_limit_retries |-> 0,
                rate_limit_retry_delay |-> 0, outcomes |-> << >>]
    /\ verdict = [i \in Implementations |-> NoVerdict]

\* no text handed to _clean_output
NoClean == raw_text = << >> /\ cleaned = << >>

NoSummary == [total |-> 0, successful |-> 0, failed |-> 0, returned |-> FALSE]

\* no batch is being processed
NoBatch ==
    /\ batch = [max_concurrent |-> 1, retry_count |-> 0, show_progress |-> FALSE,
                files |-> << >>]
    /\ task = << >>
    /\ batch_results = << >>
    /\ summary = NoSummary

\* no file is being rendered and no configuration is being constructed
NoSetup ==
    /\ pdf = [kind |-> "missing", len |-> 0]
    /\ pages_arg = AllPages
    /\ render = NotRendered
    /\ requests = << >>
    /\ cfg = ValidFields
    /\ client = "none"
    /\ NoTrial
    /\ NoClean
    /\ NoBatch

\* a client just constructed: the configuration is validated (delays >= 0,
\* max_rate_limit_retries >= 0), no request made yet, the locks free
FreshClientOf(kinds) ==
    /\ config \in [request_delay : 0..MaxDelay,
                   enable_rate_limit_retry : BOOLEAN,
                   max_rate_limit_retries : 0..MaxRetries,
                   rate_limit_retry_delay : 1..MaxBase]
    /\ kind = kinds
    /\ now = 0
    /\ last_request_time = NoTime
    /\ sync_lock = NoOne
    /\ async_lock = NoOne
    /\ pc = [c \in Callers |-> "idle"]
    /\ attempt = [c \in Callers |-> 0]
    /\ wake = [c \in Callers |-> 0]
    /\ readVal = [c \in Callers |-> NoRead]
    /\ posts = [c \in Callers |-> 0]
    /\ sleeps = [c \in Callers |-> << >>]
    /\ rateLimits = [c \in Callers |-> 0]
    /\ lastResponse = [c \in Callers |-> NoResponse]
    /\ result = [c \in Callers |-> NoResult]
    /\ sends = 0
    /\ lastPostTime = NoTime
    /\ acquires = [c \in Callers |-> 0]

\* native threads and event-loop tasks in turn
FreshClient == FreshClientOf([c \in Callers |-> IF c % 2 = 1 THEN "sync" ELSE "async"])

\* threads and tasks share the client
Init ==
    /\ users = Callers
    /\ FreshClient
    /\ NoDocument
    /\ NoSetup

\* every sleep of the event-loop path made with time.sleep
sleep_call_Blocking(k) == "time.sleep"

\* the call a caller of kind k waits with, in the gate and after a 429:
\* time.sleep blocks its thread, `await asyncio.sleep` suspends its task
sleep_call(k) == IF k = "sync" THEN "time.sleep" ELSE "asyncio.sleep"

\* the tasks of the event loop run on one thread: task c cannot make a step
\* while another task holds that thread in a blocking sleep
LoopBlocked(c) ==
    /\ kind[c] = "async"
    /\ \E d \in users \ {c} :
          /\ kind[d] = "async"
          /\ pc[d] \in {"pacing", "backoff"}
          /\ sleep_call(kind[d]) = "time.sleep"

\* a caller enters send(): the retry loop starts with attempt = 0
StartSend(c) ==
    /\ c \in users
    /\ pc[c] \in {"idle", "done"}
    /\ ~LoopBlocked(c)
    /\ sends < MaxSends
    /\ pc' = [pc EXCEPT ![c] = "loop"]
    /\ attempt' = [attempt EXCEPT ![c] = 0]
    /\ posts' = [posts EXCEPT ![c] = 0]
    /\ sleeps' = [sleeps EXCEPT ![c] = << >>]
    /\ rateLimits' = [rateLimits EXCEPT ![c] = 0]
    /\ lastResponse' = [lastResponse EXCEPT ![c] = NoResponse]
    /\ result' = [result EXCEPT ![c] = NoResult]
    /\ sends' = sends + 1
    /\ acquires' = [acquires EXCEPT ![c] = 0]
    /\ UNCHANGED pipeVars
    /\ UNCHANGED setupVars
    /\ UNCHANGED <<users, config, kind, now, last_request_time, sync_lock, async_lock,
                   wake, readVal, lastPostTime>>

\* raise exc(status, body) out of send()
Raise(c, exc, status, body) ==
    /\ result' = [result EXCEPT ![c] = [kind |-> exc, status |-> status, body |-> body]]
    /\ pc' = [pc EXCEPT ![c] = "done"]

\* the gate entered whatever the delay
rate_limit_applies_Always(request_delay) == TRUE

\* `if self.config.request_delay > 0:` / `if self.request_delay > 0:`
rate_limit_applies(request_delay) == request_delay > 0

\* top of the retry loop, `for attempt in range(max_rate_limit_retries + 1)`,
\* and the entry of the gate: `if request_delay > 0: with lock:`, the read of
\* _last_request_time and the decision to sleep
\* a gate that sleeps whenever a request was made before
must_wait_AfterAny(delay, last, t) == last # NoTime

\* `if self._last_request_time is not None:` and `if elapsed <
\* self.request_delay:` with elapsed = time.time() - self._last_request_time
must_wait(delay, last, t) == last # NoTime /\ t - last < delay

EnterGate(c) ==
    /\ pc[c] = "loop"
    /\ ~LoopBlocked(c)
    /\ IF attempt[c] >= config.max_rate_limit_retries + 1
       THEN \* the loop is exhausted: the raise after the loop
            /\ Raise(c, "RateLimitError", RateLimited, NoBody)
            /\ UNCHANGED <<sync_lock, async_lock, wake, readVal, acquires>>
       ELSE IF rate_limit_applies(config.request_delay)
       THEN /\ LockHolder(kind[c]) = NoOne
            /\ acquires' = [acquires EXCEPT ![c] = @ + 1]
            /\ IF kind[c] = "sync"
               THEN sync_lock' = c /\ UNCHANGED async_lock
               ELSE async_lock' = c /\ UNCHANGED sync_lock
            /\ readVal' = [readVal EXCEPT ![c] = last_request_time]
            /\ IF must_wait(config.request_delay, last_request_time, now)
               THEN /\ wake' = [wake EXCEPT ![c] =
                           now + (config.request_delay - (now - last_request_time))]
                    /\ pc' = [pc EXCEPT ![c] = "pacing"]
               ELSE /\ pc' = [pc EXCEPT ![c] = "record"]
                    /\ UNCHANGED wake
            /\ UNCHANGED result
       ELSE /\ pc' = [pc EXCEPT ![c] = "post"]
            /\ acquires' = [acquires EXCEPT ![c] = @ + 1]
            /\ UNCHANGED <<sync_lock, async_lock, result, wake, readVal>>
    /\ UNCHANGED pipeVars
    /\ UNCHANGED setupVars
    /\ UNCHANGED <<users, config, kind, now, last_request_time, attempt, posts, sleeps,
                   rateLimits, lastResponse, sends, lastPostTime>>

\* time.sleep(delay) / await asyncio.sleep(delay) returns, the lock still held
PacingWake(c) ==
    /\ pc[c] = "pacing"
    /\ ~LoopBlocked(c)
    /\ now >= wake[c]
    /\ pc' = [pc EXCEPT ![c] = "record"]
    /\ wake' = [wake EXCEPT ![c] = 0]
    /\ UNCHANGED acquires
    /\ UNCHANGED pipeVars
    /\ UNCHANGED setupVars
    /\ UNCHANGED <<users, config, kind, now, last_request_time, sync_lock, async_lock,
                   attempt, readVal, posts, sleeps, rateLimits, lastResponse,
                   result, sends, lastPostTime>>

\* the end of the `with` block with _last_request_time put back to None
RecordTime_Reset(c) ==
    /\ pc[c] = "record"
    /\ ~LoopBlocked(c)
    /\ last_request_time' = NoTime
    /\ IF kind[c] = "sync"
       THEN sync_lock' = NoOne /\ UNCHANGED async_lock
       ELSE async_lock' = NoOne /\ UNCHANGED sync_lock
    /\ pc' = [pc EXCEPT ![c] = "post"]
    /\ readVal' = [readVal EXCEPT ![c] = NoRead]
    /\ UNCHANGED acquires
    /\ UNCHANGED pipeVars
    /\ UNCHANGED setupVars
    /\ UNCHANGED <<users, config, kind, now, attempt, wake, posts, sleeps,
                   rateLimits, lastResponse, result, sends, lastPostTime>>

\* the time recorded with the lock kept: the `with` block never left
RecordTime_KeepsLock(c) ==
    /\ pc[c] = "record"
    /\ ~LoopBlocked(c)
    /\ last_request_time' = now
    /\ pc' = [pc EXCEPT ![c] = "post"]
    /\ readVal' = [readVal EXCEPT ![c] = NoRead]
    /\ UNCHANGED acquires
    /\ UNCHANGED pipeVars
    /\ UNCHANGED setupVars
    /\ UNCHANGED <<users, config, kind, now, attempt, wake, posts, sleeps, sync_lock,
                   async_lock, rateLimits, lastResponse, result, sends, lastPostTime>>

\* `self._last_request_time = time.time()` and the end of the `with` block
RecordTime(c) ==
    /\ pc[c] = "record"
    /\ ~LoopBlocked(c)
    /\ last_request_time' = now
    /\ IF kind[c] = "sync"
       THEN sync_lock' = NoOne /\ UNCHANGED async_lock
       ELSE async_lock' = NoOne /\ UNCHANGED sync_lock
    /\ pc' = [pc EXCEPT ![c] = "post"]
    /\ readVal' = [readVal EXCEPT ![c] = NoRead]
    /\ UNCHANGED acquires
    /\ UNCHANGED pipeVars
    /\ UNCHANGED setupVars
    /\ UNCHANGED <<users, config, kind, now, attempt, wake, posts, sleeps,
                   rateLimits, lastResponse, result, sends, lastPostTime>>

\* requests.post(...) / session.post(...) is issued
IssuePost(c) ==
    /\ pc[c] = "post"
    /\ ~LoopBlocked(c)
    /\ posts' = [posts EXCEPT ![c] = @ + 1]
    /\ lastPostTime' = now
    /\ pc' = [pc EXCEPT ![c] = "inflight"]
    /\ UNCHANGED acquires
    /\ UNCHANGED pipeVars
    /\ UNCHANGED setupVars
    /\ UNCHANGED <<users, config, kind, now, last_request_time, sync_lock, async_lock,
                   attempt, wake, readVal, sleeps, rateLimits, lastResponse, result,
                   sends>>

\* the body the server sends in answer to the caller's latest POST: the
\* responses of one send() carry pairwise different bodies
ResponseBody(c) == posts[c]

\* the give-up test that never gives up: every 429 is retried
RetriesDisabledOrExhausted_Never(a) == FALSE

\* the give-up test with `>` for `>=`: one retry too many
RetriesDisabledOrExhausted_OffByOne(a) ==
    \/ ~config.enable_rate_limit_retry
    \/ a > config.max_rate_limit_retries

\* the give-up test without the enable_rate_limit_retry flag
RetriesDisabledOrExhausted_IgnoresFlag(a) ==
    a >= config.max_rate_limit_retries

\* `not enable_rate_limit_retry or attempt >= max_rate_limit_retries`
RetriesDisabledOrExhausted(a) ==
    \/ ~config.enable_rate_limit_retry
    \/ a >= config.max_rate_limit_retries

\* the loop body with the transport timeout retried like a 429
Disposition_TimeoutRetried(resp, a) ==
    IF resp.outcome = "timeout" \/ resp.status = RateLimited
         THEN IF RetriesDisabledOrExhausted(a)
              THEN IF resp.outcome = "timeout" THEN "TimeoutError" ELSE "RateLimitError"
              ELSE "retry"
    ELSE IF resp.status # StatusOK THEN "APIError"
    ELSE IF resp.outcome = "malformed" THEN "JSONDecodeError"
    ELSE "return"

\* the loop body with every non-200 status retried like a 429
Disposition_ErrorRetried(resp, a) ==
    IF resp.outcome = "timeout" THEN "TimeoutError"
    ELSE IF resp.status # StatusOK
         THEN IF RetriesDisabledOrExhausted(a)
              THEN IF resp.status = RateLimited THEN "RateLimitError" ELSE "APIError"
              ELSE "retry"
    ELSE IF resp.outcome = "malformed" THEN "JSONDecodeError"
    ELSE "return"

\* what the loop body does with the outcome of the POST of attempt a: the
\* except clause for the transport timeout, the 429 branch, the non-200
\* branch, and response.json() for a status-200 response, which returns the
\* parsed body or lets the decoder's exception escape
Disposition(resp, a) ==
    IF resp.outcome = "timeout" THEN "TimeoutError"
    ELSE IF resp.status = RateLimited
         THEN IF RetriesDisabledOrExhausted(a) THEN "RateLimitError" ELSE "retry"
    ELSE IF resp.status # StatusOK THEN "APIError"
    ELSE IF resp.outcome = "malformed" THEN "JSONDecodeError"
    ELSE "return"

\* the POST completes (or times out) and the loop body interprets it
HandleResponse(c, resp) ==
    /\ pc[c] = "inflight"
    /\ ~LoopBlocked(c)
    /\ lastResponse' = [lastResponse EXCEPT ![c] = resp]
    /\ rateLimits' = [rateLimits EXCEPT ![c] =
                          IF resp.status = RateLimited THEN @ + 1 ELSE @]
    /\ LET d == Disposition(resp, attempt[c]) IN
       IF d = "retry"
       THEN /\ wake' = [wake EXCEPT ![c] =
                   now + get_retry_delay(config.rate_limit_retry_delay, attempt[c])]
            /\ sleeps' = [sleeps EXCEPT ![c] =
                   Append(@, get_retry_delay(config.rate_limit_retry_delay, attempt[c]))]
            /\ pc' = [pc EXCEPT ![c] = "backoff"]
            /\ UNCHANGED result
       ELSE /\ IF d = "return"
               THEN /\ result' = [result EXCEPT ![c] =
                           [kind |-> "ok", status |-> StatusOK, body |-> ResponseBody(c)]]
                    /\ pc' = [pc EXCEPT ![c] = "done"]
               ELSE IF d = "TimeoutError"
               THEN Raise(c, d, 0, NoBody)
               ELSE Raise(c, d, resp.status, ResponseBody(c))
            /\ UNCHANGED <<wake, sleeps>>
    /\ UNCHANGED acquires
    /\ UNCHANGED pipeVars
    /\ UNCHANGED setupVars
    /\ UNCHANGED <<users, config, kind, now, last_request_time, sync_lock, async_lock,
                   attempt, readVal, posts, sends, lastPostTime>>

\* the backoff that keeps its doubling in the configuration: the base delay
\* of the next attempt is written back into rate_limit_retry_delay
BackoffWake_StoresDelay(c) ==
    /\ pc[c] = "backoff"
    /\ ~LoopBlocked(c)
    /\ now >= wake[c]
    /\ attempt' = [attempt EXCEPT ![c] = @ + 1]
    /\ config' = [config EXCEPT !.rate_limit_retry_delay = @ * 2]
    /\ pc' = [pc EXCEPT ![c] = "loop"]
    /\ wake' = [wake EXCEPT ![c] = 0]
    /\ UNCHANGED acquires
    /\ UNCHANGED pipeVars
    /\ UNCHANGED setupVars
    /\ UNCHANGED <<users, kind, now, last_request_time, sync_lock, async_lock,
                   readVal, posts, sleeps, rateLimits, lastResponse,
                   result, sends, lastPostTime>>

\* the retry that goes from the backoff sleep straight to the POST, the gate
\* being passed before the loop only
BackoffWake_SkipsGate(c) ==
    /\ pc[c] = "backoff"
    /\ ~LoopBlocked(c)
    /\ now >= wake[c]
    /\ attempt' = [attempt EXCEPT ![c] = @ + 1]
    /\ pc' = [pc EXCEPT ![c] = "post"]
    /\ wake' = [wake EXCEPT ![c] = 0]
    /\ UNCHANGED acquires
    /\ UNCHANGED pipeVars
    /\ UNCHANGED setupVars
    /\ UNCHANGED <<users, config, kind, now, last_request_time, sync_lock, async_lock,
                   readVal, posts, sleeps, rateLimits, lastResponse,
                   result, sends, lastPostTime>>

\* a retry that does not advance the attempt number
NextAttempt_Stuck(a) == a

\* the loop variable of the next iteration of `for attempt in range(...)`
NextAttempt(a) == a + 1

\* the backoff sleep returns and `continue` starts the next attempt
BackoffWake(c) ==
    /\ pc[c] = "backoff"
    /\ ~LoopBlocked(c)
    /\ now >= wake[c]
    /\ attempt' = [attempt EXCEPT ![c] = NextAttempt(@)]
    /\ pc' = [pc EXCEPT ![c] = "loop"]
    /\ wake' = [wake EXCEPT ![c] = 0]
    /\ UNCHANGED acquires
    /\ UNCHANGED pipeVars
    /\ UNCHANGED setupVars
    /\ UNCHANGED <<users, config, kind, now, last_request_time, sync_lock, async_lock,
                   readVal, posts, sleeps, rateLimits, lastResponse, result,
                   sends, lastPostTime>>

\* the clock advances
Tick ==
    /\ now < MaxTime
    /\ now' = now + 1
    /\ UNCHANGED acquires
    /\ UNCHANGED pipeVars
    /\ UNCHANGED setupVars
    /\ UNCHANGED <<users, config, kind, last_request_time, sync_lock, async_lock, pc,
                   attempt, wake, readVal, posts, sleeps, rateLimits, lastResponse,
                   result, sends, lastPostTime>>

Next ==
    \/ \E c \in Callers : StartSend(c)
    \/ \E c \in Callers : EnterGate(c)
    \/ \E c \in Callers : PacingWake(c)
    \/ \E c \in Callers : RecordTime(c)
    \/ \E c \in Callers : IssuePost(c)
    \/ \E c \in Callers, resp \in Responses : HandleResponse(c, resp)
    \/ \E c \in Callers : BackoffWake(c)
    \/ Tick

Spec == Init /\ [][Next]_vars

\* one caller, a thread or a task, has the client to itself
InitSolo ==
    /\ users \in {{c} : c \in Callers}
    /\ FreshClient
    /\ NoDocument
    /\ NoSetup

SpecSolo == InitSolo /\ [][Next]_vars

\* threads and tasks share a client that retries a 429 once, after one second
InitGate ==
    /\ users = Callers
    /\ FreshClient
    /\ NoDocument
    /\ config.enable_rate_limit_retry
    /\ config.max_rate_limit_retries = 1
    /\ config.rate_limit_retry_delay = 1
    /\ NoSetup

SpecGate == InitGate /\ [][Next]_vars

\* the tasks of one event loop share a client that retries a 429 once, after
\* one second
InitLoop ==
    /\ users = Callers
    /\ FreshClientOf([c \in Callers |-> "async"])
    /\ NoDocument
    /\ config.enable_rate_limit_retry
    /\ config.max_rate_limit_retries = 1
    /\ config.rate_limit_retry_delay = 1
    /\ NoSetup

SpecLoop == InitLoop /\ [][Next]_vars

\* native threads share a client built on the shared RateLimiter, which has
\* the one threading.Lock: request_delay is one second and a 429 is retried
\* twice, after one and after two seconds
InitThreads ==
    /\ users = Callers
    /\ FreshClientOf([c \in Callers |-> "sync"])
    /\ NoDocument
    /\ config.request_delay = 1
    /\ config.enable_rate_limit_retry
    /\ config.max_rate_limit_retries = 2
    /\ config.rate_limit_retry_delay = 1
    /\ NoSetup

SpecThreads == InitThreads /\ [][Next]_vars

\* some caller is inside a sleep that has not run its time
Sleeping == \E c \in users : pc[c] \in {"pacing", "backoff"} /\ now < wake[c]

\* the clock advances for as long as a sleep needs it: time.sleep and
\* asyncio.sleep return after their delay
Elapse ==
    /\ now < MaxTime \/ Sleeping
    /\ now' = now + 1
    /\ UNCHANGED acquires
    /\ UNCHANGED pipeVars
    /\ UNCHANGED setupVars
    /\ UNCHANGED <<users, config, kind, last_request_time, sync_lock, async_lock, pc,
                   attempt, wake, readVal, posts, sleeps, rateLimits, lastResponse,
                   result, sends, lastPostTime>>

NextLive ==
    \/ \E c \in Callers : StartSend(c)
    \/ \E c \in Callers : EnterGate(c)
    \/ \E c \in Callers : PacingWake(c)
    \/ \E c \in Callers : RecordTime(c)
    \/ \E c \in Callers : IssuePost(c)
    \/ \E c \in Callers, resp \in Responses : HandleResponse(c, resp)
    \/ \E c \in Callers : BackoffWake(c)
    \/ Elapse

\* a running thread makes its next step, every POST is answered, every
\* sleep ends, and a caller before a lock that stays free takes it
Fairness ==
    /\ WF_vars(Elapse)
    /\ \A c \in Callers :
           /\ WF_vars(EnterGate(c))
           /\ WF_vars(PacingWake(c))
           /\ WF_vars(RecordTime(c))
           /\ WF_vars(IssuePost(c))
           /\ WF_vars(\E resp \in Responses : HandleResponse(c, resp))
           /\ WF_vars(BackoffWake(c))

\* two threads share a client that paces by one second and retries a 429
\* once
InitLive ==
    /\ users = {1, 2}
    /\ FreshClientOf([c \in Callers |-> "sync"])
    /\ NoDocument
    /\ config.request_delay = 1
    /\ config.enable_rate_limit_retry
    /\ config.max_rate_limit_retries = 1
    /\ config.rate_limit_retry_delay = 1
    /\ NoSetup

SpecLive == InitLive /\ [][NextLive]_vars /\ Fairness

\* ---------------------------------------------------------- page pipeline
Pages == 1..doc.images

\* `if actual_concurrency < 1: actual_concurrency = 1`
ActualConcurrency(n) == IF n < 1 THEN 1 ELSE n

\* the code a document call of strategy r runs: the `for` loop over the
\* pages, asyncio.gather over one task per page, or the ThreadPoolExecutor
\* (`if actual_concurrency > 1 and len(images) > 1`)
PathOf(r) ==
    IF doc.flavor = "DeepSeekOCR"
    THEN IF r = "sequential" THEN "loop" ELSE "gather"
    ELSE IF r = "concurrent"
            /\ ActualConcurrency(doc.concurrency_num) > 1
            /\ doc.images > 1
         THEN "pool"
         ELSE "loop"

CodePath == PathOf(run)

\* the pages between the dispatch of their task and its result
InFlight == {p \in Pages : page[p].st \in {"first", "fallback"}}

Finished(p) == page[p].st \in {"done", "failed"}

\* the fallback condition with `<=` for `<`
needs_fallback_AtThreshold(text) ==
    /\ ocr_config.fallback_enabled
    /\ doc.mode = "free_ocr"
    /\ Length(text) <= ocr_config.min_output_threshold

\* `self.config.fallback_enabled and mode == OCRMode.FREE_OCR
\*  and len(text) < self.config.min_output_threshold`
needs_fallback(text) ==
    /\ ocr_config.fallback_enabled
    /\ doc.mode = "free_ocr"
    /\ Length(text) < ocr_config.min_output_threshold

\* a response without choices taken for an empty text by either client
no_choices_Empty(flavor) == [QueuedPage EXCEPT !.st = "done", !.calls = 1]

\* the page after a first response without choices: VLMClient returns "",
\* DeepSeekOCR raises APIError("Invalid API response: no choices returned")
no_choices(flavor) ==
    IF flavor = "VLMClient"
    THEN [QueuedPage EXCEPT !.st = "done", !.calls = 1]
    ELSE [QueuedPage EXCEPT !.st = "failed", !.calls = 1, !.exc = "APIError"]

\* the page after its first dispatcher call gave resp.  VLMClient returns
\* str(content), or "" without choices.  DeepSeekOCR raises APIError without
\* choices, cleans str(content), and on a short text enters the `try`:
\* OCRMode(fallback_mode) raises ValueError for a string that is no mode,
\* otherwise the fallback call is made.
FirstPassResult(resp) ==
    IF resp.kind \in {"raises", "nomessage"}
    THEN [QueuedPage EXCEPT !.st = "failed", !.calls = 1,
                            !.exc = IF resp.kind = "raises" THEN "DispatcherError"
                                    ELSE "KeyError"]
    ELSE IF resp.kind = "nochoices"
    THEN no_choices(doc.flavor)
    ELSE IF doc.flavor = "VLMClient"
    THEN [QueuedPage EXCEPT !.st = "done", !.calls = 1, !.text = Str(resp.content)]
    ELSE LET text == clean_output(Str(resp.content))
         IN  IF ~needs_fallback(text)
             THEN [QueuedPage EXCEPT !.st = "done", !.calls = 1, !.text = text]
             ELSE IF ocr_config.fallback_mode \notin OCRModes
             THEN [QueuedPage EXCEPT !.st = "done", !.calls = 1, !.text = text,
                                     !.fb = "raised"]
             ELSE [QueuedPage EXCEPT !.st = "fallback", !.calls = 2, !.text = text]

\* the fallback text replaces the first-pass text only when it is longer
FallbackResult_KeepsLonger(resp, first, path) ==
    IF resp.kind \in {"raises", "nomessage"}
    THEN [text |-> first, fb |-> "raised"]
    ELSE IF resp.kind = "nochoices"
    THEN [text |-> first, fb |-> "nochoices"]
    ELSE IF resp.kind = "null" /\ path = "gather"
    THEN [text |-> PyNone, fb |-> "raised"]
    ELSE LET text == clean_output(Str(resp.content))
         IN  [text |-> IF Length(text) > Length(first) THEN text ELSE first,
              fb |-> "replaced"]

\* the text of the page and the way the fallback ended, after the fallback
\* call gave resp: an exception leaves `text` as it is at that point.  parse
\* and core parse assign str(content); parse_async assigns content itself
\* and _clean_output raises TypeError on a content that is no string.
FallbackResult(resp, first, path) ==
    IF resp.kind \in {"raises", "nomessage"}
    THEN [text |-> first, fb |-> "raised"]
    ELSE IF resp.kind = "nochoices"
    THEN [text |-> first, fb |-> "nochoices"]
    ELSE IF resp.kind = "null" /\ path = "gather"
    THEN [text |-> PyNone, fb |-> "raised"]
    ELSE [text |-> clean_output(Str(resp.content)), fb |-> "replaced"]

\* the result of a future stored at the position of its completion
PoolSlot_CompletionOrder(p, n) == n + 1

\* `idx = future_to_idx[future]`: the slot of page p's result, n results
\* being stored already
PoolSlot(p, n) == p

\* the name of the exception stored as the text of the page
PoolText_ErrorName(rec) == IF rec.st = "failed" THEN <<rec.exc>> ELSE rec.text

\* `try: all_texts[idx] = future.result()` / `except Exception:
\* all_texts[idx] = ""`
PoolText(rec) == IF rec.st = "failed" THEN << >> ELSE rec.text

Raised(p) == [kind |-> "raised", text |-> << >>, page |-> p]

Returned(texts) == [kind |-> "text", text |-> Join(texts), page |-> 0]

\* a document call starts.  The sequential call comes first, the concurrent
\* call on the same document and the same responses second.  gather creates
\* one task per page at once; the pool and the loop start pages one by one.
StartParse(s) ==
    /\ doc.flavor # "none"
    /\ \/ s = "sequential" /\ run = "none"
       \/ s = "concurrent" /\ run = "sequential" /\ outcome # NoOutcome
    /\ run' = s
    /\ seqOutcome' = outcome
    /\ outcome' = NoOutcome
    /\ all_texts' = IF doc.flavor = "VLMClient" THEN [p \in Pages |-> << >>] ELSE << >>
    /\ page' = [p \in Pages |->
                  IF PathOf(s) = "gather"
                  THEN [QueuedPage EXCEPT !.st = "first", !.calls = 1]
                  ELSE QueuedPage]
    /\ UNCHANGED <<doc, ocr_config>>
    /\ UNCHANGED clientVars
    /\ UNCHANGED setupVars

\* a loop that goes on to the next page whatever became of the pages before
LoopTurn_Regardless(p) == TRUE

\* `for page_idx, image_b64 in enumerate(images)` comes to page p: the body
\* has run to its end, all_texts.append(text), for every page before p
LoopTurn(p) == \A q \in 1..(p - 1) : page[q].st = "done"

\* the loop reaches page p, or a worker of the pool takes it from the queue
StartPage(p) ==
    /\ p \in Pages
    /\ run # "none"
    /\ outcome = NoOutcome
    /\ page[p].st = "queued"
    /\ \A q \in 1..(p - 1) : page[q].st # "queued"
    /\ IF CodePath = "pool"
       THEN Cardinality(InFlight) < ActualConcurrency(doc.concurrency_num)
       ELSE LoopTurn(p)
    /\ page' = [page EXCEPT ![p].st = "first", ![p].calls = 1]
    /\ UNCHANGED <<doc, ocr_config, run, all_texts, outcome, seqOutcome>>
    /\ UNCHANGED clientVars
    /\ UNCHANGED setupVars

\* page p's task has made a step that leaves the page as rec.  In the loop a
\* finished page is stored in all_texts, the last one ends the call with the
\* join, and an exception ends the call at once.
Settle(p, rec) ==
    /\ page' = [page EXCEPT ![p] =
                  IF rec.st \in {"done", "failed"}
                  THEN [rec EXCEPT !.rank = 1 + Cardinality({q \in Pages : Finished(q)})]
                  ELSE rec]
    /\ IF CodePath = "loop" /\ rec.st = "failed"
       THEN outcome' = Raised(p) /\ UNCHANGED all_texts
       ELSE IF CodePath = "loop" /\ rec.st = "done"
       THEN /\ all_texts' = IF doc.flavor = "VLMClient"
                            THEN [all_texts EXCEPT ![p] = rec.text]
                            ELSE Append(all_texts, rec.text)
            /\ outcome' = IF p = doc.images THEN Returned(all_texts') ELSE outcome
       ELSE UNCHANGED <<all_texts, outcome>>
    /\ UNCHANGED <<doc, ocr_config, run, seqOutcome>>
    /\ UNCHANGED clientVars
    /\ UNCHANGED setupVars

\* the first dispatcher call of page p returns or raises
FirstPass(p) ==
    /\ p \in Pages
    /\ run # "none"
    /\ outcome = NoOutcome
    /\ page[p].st = "first"
    /\ Settle(p, FirstPassResult(doc.script[p].first))

\* the fallback dispatcher call of page p returns or raises
Fallback(p) ==
    /\ p \in Pages
    /\ run # "none"
    /\ outcome = NoOutcome
    /\ page[p].st = "fallback"
    /\ LET r == FallbackResult(doc.script[p].fallback, page[p].text, CodePath)
       IN  Settle(p, [page[p] EXCEPT !.st = "done", !.text = r.text, !.fb = r.fb])

\* results taken as the tasks complete, like futures from as_completed
GatherTurn_AsCompleted(p) == TRUE

\* `all_results = await asyncio.gather(..., return_exceptions=True)` has
\* returned, every task being over, and `for idx, result in
\* enumerate(all_results)` has come to page p
GatherTurn(p) ==
    /\ \A q \in Pages : Finished(q)
    /\ \A q \in 1..(p - 1) : page[q].collected

\* the caller takes page p's result.  After gather has returned, the results
\* are read in index order: the first exception is raised again, a text is
\* appended as str(result).  From the pool, futures come as they complete:
\* the text goes to its slot, an exception leaves "" there.  The last result
\* ends the call with the join.
Collect(p) ==
    /\ p \in Pages
    /\ run # "none"
    /\ outcome = NoOutcome
    /\ CodePath \in {"gather", "pool"}
    /\ Finished(p)
    /\ ~page[p].collected
    /\ page' = [page EXCEPT ![p].collected = TRUE]
    /\ IF CodePath = "gather"
       THEN /\ GatherTurn(p)
            /\ IF page[p].st = "failed"
               THEN outcome' = Raised(p) /\ UNCHANGED all_texts
               ELSE /\ all_texts' = Append(all_texts, Str(page[p].text))
                    /\ outcome' = IF p = doc.images THEN Returned(all_texts') ELSE outcome
       ELSE LET n == Cardinality({q \in Pages : page[q].collected})
            IN  /\ all_texts' = [all_texts EXCEPT ![PoolSlot(p, n)] = PoolText(page[p])]
                /\ outcome' = IF n + 1 = doc.images THEN Returned(all_texts') ELSE outcome
    /\ UNCHANGED <<doc, ocr_config, run, seqOutcome>>
    /\ UNCHANGED clientVars
    /\ UNCHANGED setupVars

NextPipe ==
    \/ \E s \in {"sequential", "concurrent"} : StartParse(s)
    \/ \E p \in 1..MaxPages : StartPage(p)
    \/ \E p \in 1..MaxPages : FirstPass(p)
    \/ \E p \in 1..MaxPages : Fallback(p)
    \/ \E p \in 1..MaxPages : Collect(p)

\* the client serves no send() of its own while the document runs
QuietClient ==
    /\ users = {}
    /\ FreshClient
    /\ config = [request_delay |-> 0, enable_rate_limit_retry |-> FALSE,
                 max_rate_limit_retries |-> 0, rate_limit_retry_delay |-> 1]

FreshRun ==
    /\ run = "none"
    /\ page = << >>
    /\ all_texts = << >>
    /\ outcome = NoOutcome
    /\ seqOutcome = NoOutcome

\* the documents of n pages of a client class.  VLMClient has no mode, makes
\* no fallback call and takes concurrency_num.  DeepSeekOCR takes the mode;
\* parse_async has no parameter for the parallelism the caller wants, which
\* concurrency_num holds here as well.
Documents(n, responses, parallelisms) ==
    {[flavor |-> "VLMClient", mode |-> "free_ocr", concurrency_num |-> k,
      images |-> n, script |-> sc] :
        k \in parallelisms,
        sc \in [1..n -> [first : responses, fallback : {NoChoices}]]}
    \cup
    {[flavor |-> "DeepSeekOCR", mode |-> m, concurrency_num |-> k,
      images |-> n, script |-> sc] :
        m \in OCRModes,
        k \in parallelisms,
        sc \in [1..n -> [first : responses, fallback : responses]]}

\* a one-page document, any response to each of its calls, any configuration
InitPage ==
    /\ QuietClient
    /\ FreshRun
    /\ doc \in Documents(1, PageResponses(RawTexts), {1})
    /\ ocr_config \in IF doc.flavor = "VLMClient" THEN {DefaultOCRConfig} ELSE OCRConfigs
    /\ NoSetup

SpecPage == InitPage /\ [][NextPipe]_vars

\* the responses the pages of a longer document get: an empty text, a text
\* of one letter, an exception of the dispatcher
DocResponses ==
    {r \in PageResponses({<< >>, <<"a">>}) : r.kind \in {"content", "raises"}}

\* a document of up to MaxPages pages in the default mode and configuration
InitDoc ==
    /\ QuietClient
    /\ FreshRun
    /\ doc \in {d \in UNION {Documents(n, DocResponses, 1..MaxParallel) : n \in 1..MaxPages} :
                  d.mode = "free_ocr"}
    /\ ocr_config = DefaultOCRConfig
    /\ NoSetup

SpecDoc == InitDoc /\ [][NextPipe]_vars

\* page texts of a longer document: an empty one and one that _clean_output
\* changes (a grounding tag in front, a blank at the end)
MarkedTexts == {<< >>, <<"<|ref|>", "a", " ">>}

\* the responses to the first call of a page of such a document
MarkedResponses ==
    {r \in PageResponses(MarkedTexts) : r.kind \in {"content", "null", "raises"}}

\* DeepSeekOCR documents of up to MaxPages pages with marked texts, fallback
\* enabled or disabled; a fallback call is answered with the marked text
InitJoin ==
    /\ QuietClient
    /\ FreshRun
    /\ doc \in {d \in UNION {Documents(n, MarkedResponses, {1}) : n \in 1..MaxPages} :
                  /\ d.flavor = "DeepSeekOCR"
                  /\ d.mode = "free_ocr"
                  /\ \A p \in 1..d.images :
                         d.script[p].fallback =
                             [kind |-> "content", content |-> <<"<|ref|>", "a", " ">>]}
    /\ ocr_config \in {DefaultOCRConfig, [DefaultOCRConfig EXCEPT !.fallback_enabled = FALSE]}
    /\ NoSetup

SpecJoin == InitJoin /\ [][NextPipe]_vars

\* ---------------------------------------------------------------- renderer
\* the files of the renderer: a path that does not exist, an image file, a
\* PDF of len(doc) pages
Files ==
    {[kind |-> "missing", len |-> 0], [kind |-> "image", len |-> 0]}
    \cup {[kind |-> "pdf", len |-> n] : n \in 0..MaxFilePages}

\* page numbers a caller may pass: 0 and len(doc) + 1 are out of range
PageValues == 0..(MaxFilePages + 1)

PageLists == UNION {[1..k -> PageValues] : k \in 0..MaxListLen}

PagesArgs ==
    {AllPages}
    \cup {[kind |-> "int", int |-> p, list |-> << >>] : p \in PageValues}
    \cup {[kind |-> "list", int |-> 0, list |-> l] : l \in PageLists}

\* the bounds test that takes page numbers as indexes of doc
PageOutOfRange_ZeroIndexed(p, n) == p < 0 \/ p >= n

\* `if p < 1 or p > len(doc)` / `if pages < 1 or pages > len(doc)`
PageOutOfRange(p, n) == p < 1 \/ p > n

\* a `seen` set that is never consulted
Seen_Never(page_nums, page_idx) == FALSE

\* `page_idx not in seen`, negated: seen holds the indexes appended so far
Seen(page_nums, page_idx) == \E i \in 1..Len(page_nums) : page_nums[i] = page_idx

\* the loop `for p in pages:` over the rest of the list, page_nums being the
\* 0-indexed pages collected so far; an out-of-range element raises
RECURSIVE SelectLoop(_, _, _)
SelectLoop(n, rest, page_nums) ==
    IF rest = << >> THEN [ok |-> TRUE, page_nums |-> page_nums]
    ELSE LET p == Head(rest)
             page_idx == p - 1
         IN IF PageOutOfRange(p, n) THEN [ok |-> FALSE, page_nums |-> << >>]
            ELSE SelectLoop(n, Tail(rest),
                            IF Seen(page_nums, page_idx) THEN page_nums
                            ELSE Append(page_nums, page_idx))

\* the 0-indexed page numbers selected from a PDF of n pages by `pages`
SelectPages(n, pages) ==
    IF n = 0 THEN [ok |-> FALSE, page_nums |-> << >>]
    ELSE IF pages.kind = "none"
         THEN [ok |-> TRUE, page_nums |-> [i \in 1..n |-> i - 1]]
    ELSE IF pages.kind = "int"
         THEN IF PageOutOfRange(pages.int, n) THEN [ok |-> FALSE, page_nums |-> << >>]
              ELSE [ok |-> TRUE, page_nums |-> <<pages.int - 1>>]
    ELSE IF pages.list = << >> THEN [ok |-> FALSE, page_nums |-> << >>]
    ELSE SelectLoop(n, pages.list, << >>)

\* the base64 PNG of doc[page_num]
Pixmap(page_num) == [of |-> "page", index |-> page_num]

\* the base64 of the bytes of an image file
FileBytes == [of |-> "file", index |-> 0]

\* what the renderer returns or raises
Raises(exc) == [kind |-> exc, images |-> << >>]

\* file_to_base64(file_path, dpi, pages): one string for one image, a list
\* for several, FileProcessingError otherwise
file_to_base64(file, pages) ==
    IF file.kind = "missing" THEN Raises("FileProcessingError")
    ELSE IF file.kind = "image" THEN [kind |-> "str", images |-> <<FileBytes>>]
    ELSE LET sel == SelectPages(file.len, pages)
             results == [i \in 1..Len(sel.page_nums) |-> Pixmap(sel.page_nums[i])]
         IN IF ~sel.ok THEN Raises("FileProcessingError")
            ELSE IF Len(results) = 1 THEN [kind |-> "str", images |-> results]
            ELSE [kind |-> "list", images |-> results]

\* `if isinstance(image_b64_result, str): images = [image_b64_result]`
ImagesOf(r) == IF r.kind \in {"str", "list"} THEN r.images ELSE << >>

\* parse() calls the renderer; its exception leaves parse() at once
Render ==
    /\ render.kind = "idle"
    /\ render' = file_to_base64(pdf, pages_arg)
    /\ UNCHANGED <<pdf, pages_arg, requests, cfg, client>>
    /\ UNCHANGED <<trialVars, cleanVars, batchVars>>
    /\ UNCHANGED clientVars
    /\ UNCHANGED pipeVars

\* one iteration of `for page_idx, image_b64 in enumerate(images)`: the
\* request for the next image
RequestPage ==
    /\ Len(requests) < Len(ImagesOf(render))
    /\ requests' = Append(requests, ImagesOf(render)[Len(requests) + 1])
    /\ UNCHANGED <<pdf, pages_arg, render, cfg, client>>
    /\ UNCHANGED <<trialVars, cleanVars, batchVars>>
    /\ UNCHANGED clientVars
    /\ UNCHANGED pipeVars

NextRender ==
    \/ Render
    \/ RequestPage

\* parse(file_path, pages=...) on any file with any page selection
InitRender ==
    /\ QuietClient
    /\ NoDocument
    /\ pdf \in Files
    /\ pages_arg \in PagesArgs
    /\ render = NotRendered
    /\ requests = << >>
    /\ cfg = ValidFields
    /\ client = "none"
    /\ NoTrial
    /\ NoClean
    /\ NoBatch

SpecRender == InitRender /\ [][NextRender]_vars

\* ----------------------------------------------------------- configuration
\* values a caller may pass for a numeric field: negative, zero, positive
NumericSamples == {-1, 0, 1}

\* values a caller may pass for dpi: the three accepted ones and another
DpiSamples == {100, 150, 200, 300}

\* the keyword arguments of OCRConfig(...) and, for the VLM client, of a
\* BaseConfig subclass, which has neither dpi nor min_output_threshold
ConfigFields ==
    {f \in [class : {"OCRConfig", "BaseConfig"},
            api_key : {"", "k"},
            base_url : {"", "u"},
            dpi : DpiSamples,
            timeout : NumericSamples,
            max_tokens : NumericSamples,
            temperature : NumericSamples,
            min_output_threshold : NumericSamples,
            request_delay : NumericSamples,
            max_rate_limit_retries : NumericSamples,
            rate_limit_retry_delay : NumericSamples] :
        f.class = "BaseConfig" =>
            f.dpi = ValidFields.dpi
            /\ f.min_output_threshold = ValidFields.min_output_threshold}

\* BaseConfig.__post_init__: TRUE when a check raises ConfigurationError
BaseConfig_post_init_raises(f) ==
    \/ f.api_key = ""
    \/ f.base_url = ""
    \/ f.timeout <= 0
    \/ f.max_tokens <= 0
    \/ f.request_delay < 0
    \/ f.max_rate_limit_retries < 0
    \/ f.rate_limit_retry_delay < 0

\* OCRConfig.__post_init__: TRUE when a check raises ConfigurationError
OCRConfig_post_init_raises(f) ==
    \/ f.api_key = ""
    \/ f.base_url = ""
    \/ f.dpi \notin {150, 200, 300}
    \/ f.timeout <= 0
    \/ f.max_tokens <= 0
    \/ f.min_output_threshold < 0
    \/ f.request_delay < 0
    \/ f.max_rate_limit_retries < 0
    \/ f.rate_limit_retry_delay < 0

post_init_raises(f) ==
    IF f.class = "OCRConfig" THEN OCRConfig_post_init_raises(f)
    ELSE BaseConfig_post_init_raises(f)

\* the client is constructed with the configuration, or construction ends
\* with the ConfigurationError of __post_init__
Construct ==
    /\ client = "none"
    /\ client' = IF post_init_raises(cfg) THEN "ConfigurationError" ELSE "constructed"
    /\ UNCHANGED <<pdf, pages_arg, render, requests, cfg>>
    /\ UNCHANGED <<trialVars, cleanVars, batchVars>>
    /\ UNCHANGED clientVars
    /\ UNCHANGED pipeVars

NextConfig == Construct

\* a client is about to be constructed from any keyword arguments
InitConfig ==
    /\ QuietClient
    /\ NoDocument
    /\ pdf = [kind |-> "missing", len |-> 0]
    /\ pages_arg = AllPages
    /\ render = NotRendered
    /\ requests = << >>
    /\ cfg \in ConfigFields
    /\ client = "none"
    /\ NoTrial
    /\ NoClean
    /\ NoBatch

SpecConfig == InitConfig /\ [][NextConfig]_vars

\* ------------------------------------------- the three dispatcher loops
\* the outcomes of a POST the three loops treat in their own branches: a
\* status-200 response with a JSON body, a 429, another status, a timeout
TrialResponses == {r \in Responses : r.outcome # "malformed"}

\* a retry policy and one outcome for each iteration the loop can make
Trials ==
    UNION {[enable_rate_limit_retry : BOOLEAN,
            max_rate_limit_retries : {n},
            rate_limit_retry_delay : 0..MaxBase,
            outcomes : [1..(n + 1) -> TrialResponses]] : n \in 0..MaxRetries}

\* RateLimiter(request_delay=..., max_retries=config.max_rate_limit_retries,
\* retry_delay=config.rate_limit_retry_delay), the limiter of the shared loop
RateLimiterOf(t) ==
    [max_retries |-> t.max_rate_limit_retries, retry_delay |-> t.rate_limit_retry_delay]

\* `range(...)` of the `for attempt` loop of each implementation
LastAttempt(impl, t) ==
    IF impl = "request_sync" THEN RateLimiterOf(t).max_retries
    ELSE t.max_rate_limit_retries

\* request_sync: `not enable_rate_limit_retry or attempt >=
\* self.rate_limiter.max_retries`
give_up_shared(t, a) ==
    ~t.enable_rate_limit_retry \/ a >= RateLimiterOf(t).max_retries

\* _make_api_request_sync: `not self.config.enable_rate_limit_retry or
\* attempt >= self.config.max_rate_limit_retries`
give_up_sync(t, a) ==
    ~t.enable_rate_limit_retry \/ a >= t.max_rate_limit_retries

\* _make_api_request_async: the same test on the same fields
give_up_async(t, a) ==
    ~t.enable_rate_limit_retry \/ a >= t.max_rate_limit_retries

\* request_sync: self.rate_limiter.get_retry_delay(attempt)
backoff_shared(t, a) == get_retry_delay(RateLimiterOf(t).retry_delay, a)

\* _make_api_request_sync: self.config.rate_limit_retry_delay * (2**attempt)
backoff_sync(t, a) == t.rate_limit_retry_delay * (2 ^ a)

\* a backoff that does not grow with the attempt
backoff_async_Constant(t, a) == t.rate_limit_retry_delay

\* _make_api_request_async: self.config.rate_limit_retry_delay * (2**attempt)
backoff_async(t, a) == t.rate_limit_retry_delay * (2 ^ a)

give_up(impl, t, a) ==
    IF impl = "request_sync" THEN give_up_shared(t, a)
    ELSE IF impl = "_make_api_request_sync" THEN give_up_sync(t, a)
    ELSE give_up_async(t, a)

backoff(impl, t, a) ==
    IF impl = "request_sync" THEN backoff_shared(t, a)
    ELSE IF impl = "_make_api_request_sync" THEN backoff_sync(t, a)
    ELSE backoff_async(t, a)

\* the statements after the loop: the async loop raises last_error, the
\* RateLimitError of the latest 429, if there is one; else all three raise
\* RateLimitError("Rate limit retries exhausted", status_code=429)
AfterLoop(impl, sent, slept, last_error) ==
    IF impl = "_make_api_request_async" /\ last_error # NoBody
    THEN [kind |-> "RateLimitError", status |-> RateLimited, body |-> last_error,
          posts |-> sent, sleeps |-> slept]
    ELSE [kind |-> "RateLimitError", status |-> RateLimited, body |-> NoBody,
          posts |-> sent, sleeps |-> slept]

\* the loop of implementation impl from iteration a on, after sent POSTs
\* and the backoff sleeps slept: the body of the n-th response is n
RECURSIVE Dispatch(_, _, _, _, _, _)
Dispatch(impl, t, a, sent, slept, last_error) ==
    IF a > LastAttempt(impl, t) THEN AfterLoop(impl, sent, slept, last_error)
    ELSE LET resp == t.outcomes[a + 1]
             n == sent + 1
         IN  IF resp.outcome = "timeout"
             THEN [kind |-> "TimeoutError", status |-> 0, body |-> NoBody,
                   posts |-> n, sleeps |-> slept]
             ELSE IF resp.status = RateLimited
             THEN IF give_up(impl, t, a)
                  THEN [kind |-> "RateLimitError", status |-> RateLimited, body |-> n,
                        posts |-> n, sleeps |-> slept]
                  ELSE Dispatch(impl, t, a + 1, n, Append(slept, backoff(impl, t, a)), n)
             ELSE IF resp.status # StatusOK
             THEN [kind |-> "APIError", status |-> resp.status, body |-> n,
                   posts |-> n, sleeps |-> slept]
             ELSE [kind |-> "ok", status |-> StatusOK, body |-> n,
                   posts |-> n, sleeps |-> slept]

\* one implementation runs its loop on the outcomes of the trial
Try(impl) ==
    /\ verdict[impl] = NoVerdict
    /\ verdict' = [verdict EXCEPT ![impl] = Dispatch(impl, trial, 0, 0, << >>, NoBody)]
    /\ UNCHANGED <<pdf, pages_arg, render, requests, cfg, client, trial, cleanVars, batchVars>>
    /\ UNCHANGED clientVars
    /\ UNCHANGED pipeVars

NextTrial == \E impl \in Implementations : Try(impl)

\* any retry policy and any outcomes, before the three loops have run
InitTrial ==
    /\ QuietClient
    /\ NoDocument
    /\ pdf = [kind |-> "missing", len |-> 0]
    /\ pages_arg = AllPages
    /\ render = NotRendered
    /\ requests = << >>
    /\ cfg = ValidFields
    /\ client = "none"
    /\ trial \in Trials
    /\ verdict = [i \in Implementations |-> NoVerdict]
    /\ NoClean
    /\ NoBatch

SpecTrial == InitTrial /\ [][NextTrial]_vars

\* ------------------------------------------- _clean_output, by character
\* The texts above are sequences of whole tokens, on which the two re.sub
\* calls remove the tokens that are tags. re.sub works on characters: here a
\* text is the sequence of its characters, made of pieces that are a tag,
\* the head or the tail of a tag, a letter or a blank.
RefTag == <<"<", "|", "r", "e", "f", "|", ">">>
DetTag == <<"<", "|", "d", "e", "t", "|", ">">>

Pieces ==
    {RefTag, DetTag, SubSeq(RefTag, 1, 4), SubSeq(RefTag, 5, 7),
     SubSeq(DetTag, 1, 4), SubSeq(DetTag, 5, 7), <<"a">>, <<" ">>}

RECURSIVE Concat(_)
\* "".join(pieces)
Concat(pieces) == IF pieces = << >> THEN << >> ELSE Head(pieces) \o Concat(Tail(pieces))

CleanInputs == {Concat(ps) : ps \in UNION {[1..n -> Pieces] : n \in 0..MaxPieces}}

RECURSIVE re_sub(_, _)
\* re.sub(pat, "", text) for a literal pattern: one scan from the left that
\* drops each occurrence it meets and goes on behind it
re_sub(pat, text) ==
    IF text = << >> THEN << >>
    ELSE IF Len(text) >= Len(pat) /\ SubSeq(text, 1, Len(pat)) = pat
    THEN re_sub(pat, SubSeq(text, Len(pat) + 1, Len(text)))
    ELSE <<Head(text)>> \o re_sub(pat, Tail(text))

\* _clean_output on the characters: the <|ref|> pass, the <|det|> pass, strip()
CleanChars(text) == LStrip(RStrip(re_sub(DetTag, re_sub(RefTag, text))))

\* `pat in text`
Contains(text, pat) ==
    \E i \in 1..Len(text) : i + Len(pat) - 1 <= Len(text) /\ SubSeq(text, i, i + Len(pat) - 1) = pat

\* _clean_output is called on the text, or on the result of the call before
CleanOutput ==
    /\ Len(cleaned) < MaxCleanings
    /\ cleaned' = Append(cleaned, CleanChars(IF cleaned = << >> THEN raw_text
                                             ELSE cleaned[Len(cleaned)]))
    /\ UNCHANGED <<pdf, pages_arg, render, requests, cfg, client, trialVars, raw_text, batchVars>>
    /\ UNCHANGED clientVars
    /\ UNCHANGED pipeVars

NextClean == CleanOutput

\* any text of the pieces, not cleaned yet
InitClean ==
    /\ QuietClient
    /\ NoDocument
    /\ pdf = [kind |-> "missing", len |-> 0]
    /\ pages_arg = AllPages
    /\ render = NotRendered
    /\ requests = << >>
    /\ cfg = ValidFields
    /\ client = "none"
    /\ NoTrial
    /\ raw_text \in CleanInputs
    /\ cleaned = << >>
    /\ NoBatch

SpecClean == InitClean /\ [][NextClean]_vars

\* ------------------------------------------------- the batch processor
\* batch.files[f] is the number of pages of the f-th file of file_paths.
\* task[f] is the process_with_semaphore task of that file: where it stands,
\* the loop variable and the parse_async calls of _process_single, the page
\* requests of the current parse_async call that were posted and answered,
\* last_error (0 for None; the error of the k-th call has the message k) and
\* the BatchResult it returned.
BatchFiles == 1..Len(batch.files)

NoBatchResult == [file |-> 0, success |-> FALSE, error |-> 0]

NewTask == [st |-> "waiting", attempt |-> 0, calls |-> 0, posted |-> 0, answered |-> 0,
            last_error |-> 0, returned |-> NoBatchResult]

\* the tasks inside `async with semaphore`
Holding == {f \in BatchFiles : task[f].st \in {"parsing", "sleeping"}}

\* the page requests of the client that are posted and not answered
RequestsInFlight(f) == task[f].posted - task[f].answered

RECURSIVE SumRequestsInFlight(_)
SumRequestsInFlight(fs) ==
    IF fs = {} THEN 0
    ELSE LET f == CHOOSE x \in fs : TRUE IN RequestsInFlight(f) + SumRequestsInFlight(fs \ {f})

\* a handler that keeps the message of the first failed call
except_Exception_First(old, calls) == IF old = 0 THEN calls ELSE old

\* `except Exception as e: last_error = str(e)`
except_Exception(old, calls) == calls

\* sum(1 for r in results if r.success)
CountSuccessful(rs) == Cardinality({i \in 1..Len(rs) : rs[i].success})

\* a processor that reads the list of the progress loop in both branches
Collected_Progress(show_progress) == batch_results

\* `results` after the branch on show_progress: what the as_completed loop
\* appended, or what asyncio.gather(*tasks) returns, in the order of the tasks
Collected(show_progress) ==
    IF show_progress THEN batch_results ELSE [f \in BatchFiles |-> task[f].returned]

batchIdle ==
    /\ UNCHANGED <<pdf, pages_arg, render, requests, cfg, client, trialVars, cleanVars>>
    /\ UNCHANGED clientVars
    /\ UNCHANGED pipeVars

\* `async with semaphore:` is entered and _process_single makes its first
\* parse_async call
Enter(f) ==
    /\ ~summary.returned
    /\ task[f].st = "waiting"
    /\ Cardinality(Holding) < batch.max_concurrent
    /\ task' = [task EXCEPT ![f].st = "parsing", ![f].calls = 1]
    /\ UNCHANGED <<batch, batch_results, summary>>
    /\ batchIdle

\* parse_async has made one task per page and gathers them: the request of
\* one more page is posted
PostPage(f) ==
    /\ task[f].st = "parsing"
    /\ task[f].posted < batch.files[f]
    /\ task' = [task EXCEPT ![f].posted = @ + 1]
    /\ UNCHANGED <<batch, batch_results, summary>>
    /\ batchIdle

\* one posted request of the file is answered
AnswerPage(f) ==
    /\ task[f].st = "parsing"
    /\ task[f].answered < task[f].posted
    /\ task' = [task EXCEPT ![f].answered = @ + 1]
    /\ UNCHANGED <<batch, batch_results, summary>>
    /\ batchIdle

\* the task returns res: the semaphore is released, and with show_progress
\* the as_completed loop appends the result
Finish(f, res) ==
    /\ task' = [task EXCEPT ![f].st = "done", ![f].returned = res,
                            ![f].posted = 0, ![f].answered = 0]
    /\ batch_results' = IF batch.show_progress THEN Append(batch_results, res)
                        ELSE batch_results

\* every page of the file is answered and parse_async returns the text
ParseReturns(f) ==
    /\ task[f].st = "parsing"
    /\ task[f].answered = batch.files[f]
    /\ Finish(f, [file |-> f, success |-> TRUE, error |-> 0])
    /\ UNCHANGED <<batch, summary>>
    /\ batchIdle

\* every page of the file is answered and parse_async raises an Exception:
\* a sleep of one second and the next iteration, or the return after the loop
ParseRaises(f) ==
    /\ task[f].st = "parsing"
    /\ task[f].answered = batch.files[f]
    /\ LET err == except_Exception(task[f].last_error, task[f].calls)
       IN  IF task[f].attempt < batch.retry_count
           THEN /\ task' = [task EXCEPT ![f].st = "sleeping", ![f].last_error = err,
                                        ![f].posted = 0, ![f].answered = 0]
                /\ UNCHANGED batch_results
           ELSE /\ task' = [task EXCEPT ![f].st = "done", ![f].last_error = err,
                                        ![f].returned = [file |-> f, success |-> FALSE,
                                                         error |-> err],
                                        ![f].posted = 0, ![f].answered = 0]
                /\ batch_results' =
                       IF batch.show_progress
                       THEN Append(batch_results, [file |-> f, success |-> FALSE, error |-> err])
                       ELSE batch_results
    /\ UNCHANGED <<batch, summary>>
    /\ batchIdle

\* the end of asyncio.sleep(1): the next iteration calls parse_async
Retry(f) ==
    /\ task[f].st = "sleeping"
    /\ task' = [task EXCEPT ![f].st = "parsing", ![f].attempt = @ + 1, ![f].calls = @ + 1]
    /\ UNCHANGED <<batch, batch_results, summary>>
    /\ batchIdle

\* process_batch returns: at once on an empty file_paths, else when the
\* as_completed loop has every result or gather returns them in the order of
\* the files
Summarise ==
    /\ ~summary.returned
    /\ \A f \in BatchFiles : task[f].st = "done"
    /\ LET rs == IF batch.files = << >> THEN << >> ELSE Collected(batch.show_progress)
           successful == IF batch.files = << >> THEN 0 ELSE CountSuccessful(rs)
       IN  /\ batch_results' = rs
           /\ summary' = [total |-> Len(rs), successful |-> successful,
                          failed |-> Len(rs) - successful, returned |-> TRUE]
    /\ UNCHANGED <<batch, task>>
    /\ batchIdle

NextBatch ==
    \/ \E f \in BatchFiles : Enter(f)
    \/ \E f \in BatchFiles : PostPage(f)
    \/ \E f \in BatchFiles : AnswerPage(f)
    \/ \E f \in BatchFiles : ParseReturns(f)
    \/ \E f \in BatchFiles : ParseRaises(f)
    \/ \E f \in BatchFiles : Retry(f)
    \/ Summarise

\* process_batch is called: a processor with some max_concurrent >= 1 and
\* retry_count >= 0, up to MaxFiles files with page counts of the given set,
\* no task started
BatchCalled(pageCounts) ==
    /\ QuietClient
    /\ NoDocument
    /\ pdf = [kind |-> "missing", len |-> 0]
    /\ pages_arg = AllPages
    /\ render = NotRendered
    /\ requests = << >>
    /\ cfg = ValidFields
    /\ client = "none"
    /\ NoTrial
    /\ NoClean
    /\ batch \in [max_concurrent : 1..MaxConcurrent, retry_count : 0..MaxBatchRetries,
                  show_progress : BOOLEAN,
                  files : UNION {[1..n -> pageCounts] : n \in 0..MaxFiles}]
    /\ task = [f \in 1..Len(batch.files) |-> NewTask]
    /\ batch_results = << >>
    /\ summary = NoSummary

\* a batch of one-page files: images, or PDFs of one page
InitBatch == BatchCalled({1})

SpecBatch == InitBatch /\ [][NextBatch]_vars

\* a batch of files of up to MaxPages pages
InitFlight == BatchCalled(1..MaxPages)

SpecFlight == InitFlight /\ [][NextBatch]_vars

\* ------------------------------------------------------------------ claims

\* the caller is inside the `with lock:` block of the gate
InGate(c) == pc[c] \in {"pacing", "record"}

\* C1: the read of last_request_time, the pacing wait and the write are one
\* critical section under one lock shared by all callers of the client: no
\* two callers are inside it together, and the value a caller read is still
\* the recorded one while it waits and when it proceeds (no two callers pass
\* the gate on the same read value).
C1_SingleCriticalSection ==
    /\ \A c1, c2 \in Callers : c1 # c2 => ~(InGate(c1) /\ InGate(c2))
    /\ \A c \in Callers : InGate(c) => readVal[c] = last_request_time

\* C2: with request_delay d > 0, a POST of the client starts at least d after
\* the start of the client's previous POST.
C2_PostSpacing ==
    [][\A c \in Callers :
          (pc[c] = "post" /\ pc'[c] = "inflight" /\ lastPostTime # NoTime)
              => lastPostTime' >= lastPostTime + config.request_delay]_vars

\* C3: with request_delay d > 0, a completing acquire records a
\* last_request_time at least d later than the one recorded by the previous
\* completed acquire.
C3_RecordedSpacing ==
    [][\A c \in Callers :
          (pc[c] = "record" /\ pc'[c] = "post" /\ last_request_time # NoTime)
              => last_request_time' >= last_request_time + config.request_delay]_vars

\* the caller's send() has returned or raised
Done(c) == pc[c] = "done"

\* base * 2^0, ..., base * 2^(k-1)
BackoffSeries(base, k) == [i \in 1..k |-> base * (2 ^ (i - 1))]

RECURSIVE SumSeq(_)
SumSeq(q) == IF q = << >> THEN 0 ELSE Head(q) + SumSeq(Tail(q))

\* C4: with retry enabled, k 429 responses followed by a 200 response with a
\* JSON body make send() return that body after exactly k+1 POSTs and the
\* backoff sleeps base*2^0, ..., base*2^(k-1), in that order, base*(2^k - 1)
\* in total.
C4_RetryThenSuccess ==
    \A c \in Callers :
        (config.enable_rate_limit_retry /\ lastResponse[c].outcome = "ok") =>
            /\ Done(c)
            /\ rateLimits[c] <= config.max_rate_limit_retries
            /\ result[c] = [kind |-> "ok", status |-> StatusOK, body |-> rateLimits[c] + 1]
            /\ posts[c] = rateLimits[c] + 1
            /\ sleeps[c] = BackoffSeries(config.rate_limit_retry_delay, rateLimits[c])
            /\ SumSeq(sleeps[c]) = config.rate_limit_retry_delay * ((2 ^ rateLimits[c]) - 1)

\* a send() that was answered 429 twice and then 200
C4_Witness ==
    \E c \in Callers :
        /\ config.enable_rate_limit_retry
        /\ Done(c)
        /\ rateLimits[c] = 2
        /\ lastResponse[c].outcome = "ok"

\* C5: with retry enabled, a send() whose every response is 429 raises
\* RateLimitError with status 429 and the body of the last response after
\* exactly max_retries+1 POSTs and max_retries backoff sleeps.
C5_RetriesExhausted ==
    \A c \in Callers :
        (config.enable_rate_limit_retry /\ Done(c) /\ lastResponse[c].status = RateLimited) =>
            /\ result[c] = [kind |-> "RateLimitError", status |-> RateLimited,
                            body |-> config.max_rate_limit_retries + 1]
            /\ posts[c] = config.max_rate_limit_retries + 1
            /\ rateLimits[c] = posts[c]
            /\ sleeps[c] = BackoffSeries(config.rate_limit_retry_delay,
                                         config.max_rate_limit_retries)

\* a send() with retry enabled that ended on a 429 after at least one retry
C5_Witness ==
    \E c \in Callers :
        /\ config.enable_rate_limit_retry
        /\ config.max_rate_limit_retries = 2
        /\ Done(c)
        /\ lastResponse[c].status = RateLimited
        /\ posts[c] = 3

\* C6: with retry disabled, a 429 on the first attempt makes send() raise
\* RateLimitError (status 429, the response body) at once: one POST, no
\* backoff sleep, whatever max_retries is.
C6_NoRetryWhenDisabled ==
    \A c \in Callers :
        (~config.enable_rate_limit_retry /\ lastResponse[c].status = RateLimited) =>
            /\ Done(c)
            /\ result[c] = [kind |-> "RateLimitError", status |-> RateLimited, body |-> 1]
            /\ posts[c] = 1
            /\ sleeps[c] = << >>

\* a 429 answered to a client with retry disabled and max_retries > 0
C6_Witness ==
    \E c \in Callers :
        /\ ~config.enable_rate_limit_retry
        /\ config.max_rate_limit_retries > 0
        /\ lastResponse[c].status = RateLimited

\* C7: a transport timeout on any attempt raises TimeoutError at once: no
\* further POST and no backoff sleep follow it within that send().
C7_TimeoutNotRetried ==
    \A c \in Callers :
        lastResponse[c].outcome = "timeout" =>
            /\ Done(c)
            /\ result[c].kind = "TimeoutError"
            /\ posts[c] = rateLimits[c] + 1
            /\ Len(sleeps[c]) = rateLimits[c]

\* a timeout on a retry after an earlier 429
C7_Witness ==
    \E c \in Callers :
        /\ lastResponse[c].outcome = "timeout"
        /\ rateLimits[c] >= 1

\* C8: a response whose status is neither 200 nor 429, on any attempt, makes
\* send() raise APIError with that status and the response body; no further
\* POST is made in that send().
C8_OtherStatusNotRetried ==
    \A c \in Callers :
        lastResponse[c].outcome = "error" =>
            /\ Done(c)
            /\ result[c] = [kind |-> "APIError", status |-> lastResponse[c].status,
                            body |-> posts[c]]
            /\ posts[c] = rateLimits[c] + 1
            /\ Len(sleeps[c]) = rateLimits[c]

\* a status-500 response on a retry after an earlier 429
C8_Witness ==
    \E c \in Callers :
        /\ lastResponse[c].outcome = "error"
        /\ lastResponse[c].status = 500
        /\ rateLimits[c] >= 1

\* C9: a status-200 response whose body is not JSON makes send() fail with
\* an APIError; no other kind of exception escapes send() for it.
C9_MalformedBodyIsAPIError ==
    \A c \in Callers :
        lastResponse[c].outcome = "malformed" =>
            /\ Done(c)
            /\ result[c].kind = "APIError"

\* C10: one send() makes at most max_retries+1 POSTs, attempt stays within
\* 0..max_retries, and once the last of these POSTs is answered send() has
\* returned or raised.
C10_BoundedAttempts ==
    \A c \in Callers :
        /\ posts[c] <= config.max_rate_limit_retries + 1
        /\ (pc[c] \in {"pacing", "record", "post", "inflight", "backoff"}
               => attempt[c] \in 0..config.max_rate_limit_retries)
        /\ (posts[c] = config.max_rate_limit_retries + 1 /\ pc[c] # "inflight")
               => Done(c)
        /\ Done(c) => result[c].kind # "none"

\* a send() that used all its attempts
C10_Witness ==
    \E c \in Callers :
        /\ config.max_rate_limit_retries = 2
        /\ posts[c] = 3
        /\ Done(c)

\* ------------------------------------------------- claims: gate and backoff
\* C18: with request_delay = 0 the gate is passed without the lock, without
\* a wait and without a write: _last_request_time stays None, both locks
\* stay free and no caller is ever inside the gate.
C18_NoOpWithoutDelay ==
    config.request_delay = 0 =>
        /\ last_request_time = NoTime
        /\ sync_lock = NoOne
        /\ async_lock = NoOne
        /\ \A c \in Callers : ~InGate(c) /\ readVal[c] = NoRead

\* with request_delay = 0 every caller has passed the gate and has a POST
\* under way
C18_Witness ==
    /\ config.request_delay = 0
    /\ users = Callers
    /\ \A c \in Callers : pc[c] = "inflight"

RECURSIVE Doubled(_, _)
\* base doubled a times
Doubled(base, a) == IF a = 0 THEN base ELSE 2 * Doubled(base, a - 1)

\* C19: the delay slept after the 429 of attempt a is the base doubled a
\* times, and computing it changes neither the attempt, the configuration
\* nor _last_request_time.
C19_BackoffDelay ==
    [][\A c \in Callers :
          (pc[c] = "inflight" /\ pc'[c] = "backoff") =>
              /\ wake'[c] = now + Doubled(config.rate_limit_retry_delay, attempt[c])
              /\ sleeps'[c] = Append(sleeps[c],
                                     Doubled(config.rate_limit_retry_delay, attempt[c]))
              /\ attempt' = attempt
              /\ config' = config
              /\ last_request_time' = last_request_time]_vars

\* a caller sleeps after the 429 of its second attempt
C19_Witness ==
    \E c \in Callers :
        /\ pc[c] = "backoff"
        /\ attempt[c] = 1
        /\ Len(sleeps[c]) = 2

\* C20: _last_request_time leaves None only when a caller completes the gate
\* with request_delay > 0, is set by every such completion, and from then on
\* is never None again and never decreases.
C20_LastRequestTimeMonotone ==
    [][/\ (last_request_time # NoTime) =>
              (last_request_time' # NoTime /\ last_request_time' >= last_request_time)
       /\ (last_request_time = NoTime /\ last_request_time' # NoTime) =>
              /\ config.request_delay > 0
              /\ \E c \in Callers : pc[c] = "record" /\ pc'[c] = "post"
       /\ \A c \in Callers :
              (pc[c] = "record" /\ pc'[c] = "post") => last_request_time' # NoTime]_vars

\* a caller has passed the gate a second time, later than the first
C20_Witness ==
    /\ last_request_time > 0
    /\ \E c \in Callers : pc[c] = "post" /\ attempt[c] >= 1

\* ------------------------------------------------ claims: page pipeline
Running == run # "none"

\* the cleaned text of page p's first pass
FirstPassText(p) == clean_output(Str(doc.script[p].first.content))

\* the cleaned text of page p's fallback response
FallbackText(p) == clean_output(Str(doc.script[p].fallback.content))

\* C11: whenever the fallback attempt of a page raised (building the prompt,
\* the dispatcher call, extracting or cleaning the text), the page ends with
\* the cleaned first-pass text and without an exception.
C11_FallbackNeverDegrades ==
    Running =>
        \A p \in Pages :
            page[p].fb = "raised" =>
                /\ page[p].st = "done"
                /\ page[p].text = FirstPassText(p)

\* C12: a page makes at most two dispatcher calls, and when the fallback
\* response holds a text in a non-empty choices array, the page text is that
\* text cleaned, whatever its length.
C12_FallbackReplaces ==
    Running =>
        \A p \in Pages :
            /\ page[p].calls <= 2
            /\ (/\ page[p].st = "done"
                /\ page[p].calls = 2
                /\ doc.script[p].fallback.kind = "content")
               => page[p].text = FallbackText(p)

\* a fallback text shorter than the first-pass text and below the threshold
\* has replaced it
C12_Witness ==
    /\ Running
    /\ \E p \in Pages :
        /\ page[p].st = "done"
        /\ page[p].calls = 2
        /\ doc.script[p].fallback.kind = "content"
        /\ Length(FallbackText(p)) < Length(FirstPassText(p))
        /\ Length(page[p].text) < ocr_config.min_output_threshold

\* the condition of the claim on page p's first-pass text
ShortFirstPass(p) ==
    /\ ocr_config.fallback_enabled
    /\ doc.mode = "free_ocr"
    /\ Length(FirstPassText(p)) < ocr_config.min_output_threshold

\* C13 as stated: a page with a first-pass text makes a second dispatcher
\* call exactly when fallback is enabled, the mode is free_ocr and the
\* cleaned first-pass text is shorter than the threshold; otherwise one call.
C13_FallbackIffShort ==
    (Running /\ doc.flavor = "DeepSeekOCR") =>
        \A p \in Pages :
            page[p].st = "done" =>
                /\ page[p].calls = (IF ShortFirstPass(p) THEN 2 ELSE 1)

\* C13 amended: the same, for a fallback_mode that names an OCR mode; with
\* any other string the page makes one call.
C13_FallbackIffShortAndValidMode ==
    (Running /\ doc.flavor = "DeepSeekOCR") =>
        \A p \in Pages :
            page[p].st = "done" =>
                /\ page[p].calls =
                     (IF ShortFirstPass(p) /\ ocr_config.fallback_mode \in OCRModes
                      THEN 2 ELSE 1)

\* a page below the threshold has made its fallback call, and a page at the
\* threshold has not
C13_Witness ==
    /\ Running
    /\ doc.flavor = "DeepSeekOCR"
    /\ ocr_config.fallback_enabled
    /\ doc.mode = "free_ocr"
    /\ \E p \in Pages :
        /\ page[p].st = "done"
        /\ \/ page[p].calls = 2
              /\ Length(FirstPassText(p)) + 1 = ocr_config.min_output_threshold
           \/ page[p].calls = 1
              /\ Length(FirstPassText(p)) = ocr_config.min_output_threshold
              /\ ocr_config.min_output_threshold > 0

\* C14: a concurrent call that returns a text returns the join of the page
\* texts in page order, each page's text at its own index, whatever the
\* order in which the page tasks finished.
C14_OrderPreserved ==
    (run = "concurrent" /\ outcome.kind = "text") =>
        outcome.text =
            Join([p \in Pages |-> IF page[p].st = "done" THEN Str(page[p].text) ELSE << >>])

\* a concurrent call has returned although a later page with another text
\* finished before an earlier one
C14_Witness ==
    /\ run = "concurrent"
    /\ outcome.kind = "text"
    /\ \E p, q \in Pages :
        /\ p < q
        /\ page[p].st = "done"
        /\ page[q].st = "done"
        /\ page[q].rank < page[p].rank
        /\ page[p].text # page[q].text

\* C15: a concurrent call one of whose pages had its dispatcher call fail
\* does not return a document text.
C15_PageFailureFailsDocument ==
    (run = "concurrent" /\ outcome.kind = "text") =>
        \A p \in Pages : doc.script[p].first.kind # "raises"

\* C16: the concurrent call ends as the sequential call on the same document
\* and the same responses did: the same text, or a failure in both.
C16_StrategiesAgree ==
    (run = "concurrent" /\ outcome # NoOutcome) =>
        /\ outcome.kind = seqOutcome.kind
        /\ outcome.text = seqOutcome.text

\* C17: during a concurrent call no more pages are in flight than the
\* parallelism asked for.
C17_BoundedInFlight ==
    run = "concurrent" =>
        Cardinality(InFlight) <= ActualConcurrency(doc.concurrency_num)

\* ------------------------------------------- claims: loop exit and frame

\* the raise after the `for` loop: the loop variable has run past its range
PostLoop(c) == pc[c] = "loop" /\ attempt[c] > config.max_rate_limit_retries

\* C21: for every max_retries >= 0, every retry_enabled setting and every
\* sequence of HTTP outcomes, the loop ends by returning or raising inside the
\* loop body: the raise after the loop is never reached, so every
\* RateLimitError of send() carries the body of a 429 response.
C21_PostLoopUnreachable ==
    \A c \in Callers :
        /\ ~PostLoop(c)
        /\ (Done(c) /\ result[c].kind = "RateLimitError") =>
               /\ lastResponse[c].status = RateLimited
               /\ result[c].body = posts[c]
               /\ result[c].body # NoBody

\* a send() that gave up in the body of the last iteration of the loop
C21_Witness ==
    \E c \in Callers :
        /\ config.enable_rate_limit_retry
        /\ config.max_rate_limit_retries >= 1
        /\ attempt[c] = config.max_rate_limit_retries
        /\ Done(c)
        /\ result[c].kind = "RateLimitError"

Waiting(c) == kind[c] = "async" /\ pc[c] \in {"pacing", "backoff"}

\* the response of task d's request arrives and d's send() returns its body
ReceiveAndFinish(d) ==
    /\ HandleResponse(d, [outcome |-> "ok", status |-> StatusOK])
    /\ pc'[d] = "done"
    /\ result'[d].kind = "ok"

\* C23: in the cooperative path the pacing wait and the 429 backoff wait are
\* suspension points: while one task is in either wait, another task of the
\* same event loop whose request is in flight can receive its response and
\* finish.
C23_WaitsSuspend ==
    \A c, d \in users :
        (c # d /\ Waiting(c) /\ kind[d] = "async" /\ pc[d] = "inflight")
            => ENABLED ReceiveAndFinish(d)

\* the other task finished while a task was still inside its pacing wait
\* (its wake-up time not yet reached) on the retry after a 429
C23_Witness ==
    \E c, d \in users :
        /\ c # d
        /\ kind[c] = "async" /\ kind[d] = "async"
        /\ pc[c] = "pacing" /\ attempt[c] = 1 /\ now < wake[c]
        /\ Done(d) /\ result[d].kind = "ok" /\ lastPostTime = now

\* ---------------------------------------------------------- claims: renderer

\* the position of the first occurrence of page number p in the list l
FirstAt(l, p) == CHOOSE i \in 1..Len(l) : l[i] = p /\ \A j \in 1..(i - 1) : l[j] # p

\* the images ims are one image per distinct page number of l, in the order
\* in which the page numbers first occur in l
FirstOccurrenceOrder(ims, l) ==
    /\ \A i \in 1..Len(ims) : ims[i].of = "page"
    /\ {ims[i].index + 1 : i \in 1..Len(ims)} = {l[j] : j \in 1..Len(l)}
    /\ \A i, j \in 1..Len(ims) :
           i < j => FirstAt(l, ims[i].index + 1) < FirstAt(l, ims[j].index + 1)

\* a list of page numbers all in range was rendered from a PDF
InRangeListRendered ==
    /\ pdf.kind = "pdf"
    /\ pages_arg.kind = "list"
    /\ pages_arg.list # << >>
    /\ \A j \in 1..Len(pages_arg.list) : pages_arg.list[j] \in 1..pdf.len
    /\ render.kind # "idle"

\* C24: for any list of in-range 1-indexed page numbers the renderer yields
\* exactly one image per distinct page, in order of first occurrence in the
\* list, and the pipeline makes its requests for exactly those pages in that
\* order.
C24_DedupFirstOccurrence ==
    InRangeListRendered =>
        /\ render.kind \in {"str", "list"}
        /\ FirstOccurrenceOrder(ImagesOf(render), pages_arg.list)
        /\ Len(requests) <= Len(ImagesOf(render))
        /\ requests = SubSeq(ImagesOf(render), 1, Len(requests))

\* pages [1,2,1,3,2] of a 3-page document: page1, page2, page3 requested
C24_Witness ==
    /\ pdf = [kind |-> "pdf", len |-> 3]
    /\ pages_arg.list = <<1, 2, 1, 3, 2>>
    /\ requests = <<Pixmap(0), Pixmap(1), Pixmap(2)>>

\* the selection the renderer must refuse on a PDF of pdf.len pages
BadSelection ==
    /\ pdf.kind = "pdf"
    /\ \/ pdf.len = 0
       \/ pages_arg.kind = "int" /\ (pages_arg.int < 1 \/ pages_arg.int > pdf.len)
       \/ pages_arg.kind = "list" /\ pages_arg.list = << >>
       \/ /\ pages_arg.kind = "list"
          /\ \E j \in 1..Len(pages_arg.list) : pages_arg.list[j] \notin 1..pdf.len

Separators(text) == Cardinality({i \in 1..Len(text) : text[i] = PageSeparator})

RECURSIVE Interleaved(_)
\* the texts of parts in order, a separator between two neighbours
Interleaved(parts) ==
    IF Len(parts) = 0 THEN << >>
    ELSE IF Len(parts) = 1 THEN parts[1]
    ELSE Interleaved(SubSeq(parts, 1, Len(parts) - 1))
             \o <<PageSeparator>> \o parts[Len(parts)]

\* every first-pass request is answered 200 with a non-empty choices array
AllAnswered == \A p \in Pages : doc.script[p].first.kind \in {"content", "null"}

\* the cleaned text of the content of page p's first response
CleanedPage(p) == clean_output(Str(doc.script[p].first.content))

\* what the claim says of the outcome o of a document call
OnePassOutcome(o) ==
    /\ o.kind = "text"
    /\ o.text = Interleaved([p \in Pages |-> CleanedPage(p)])
    /\ Separators(o.text) = doc.images - 1

\* C26: with fallback disabled and every request answered 200 with non-empty
\* choices, parse and parse_async make exactly one dispatcher call per page
\* and return the cleaned page texts joined by page_separator in page order:
\* N pages give exactly N-1 separators.
C26_OneCallPerPageJoined ==
    (doc.flavor = "DeepSeekOCR" /\ ~ocr_config.fallback_enabled /\ AllAnswered) =>
        /\ run # "none" => \A p \in Pages : page[p].calls <= 1 /\ page[p].st # "failed"
        /\ outcome # NoOutcome =>
               /\ OnePassOutcome(outcome)
               /\ \A p \in Pages : page[p].calls = 1
        /\ seqOutcome # NoOutcome => OnePassOutcome(seqOutcome)

\* parse_async has returned a two-page text whose second page was cleaned of
\* its tag and its blank, with fallback disabled
C26_Witness ==
    /\ ~ocr_config.fallback_enabled
    /\ doc.images = 2
    /\ doc.script[1].first.content = << >>
    /\ doc.script[2].first.content = <<"<|ref|>", "a", " ">>
    /\ run = "concurrent"
    /\ seqOutcome.kind = "text"
    /\ outcome = [kind |-> "text", text |-> <<PageSeparator, "a">>, page |-> 0]

\* ------------------------------------------------------ claims: configuration

\* C27: every numeric field of the configuration (timeout, max_tokens,
\* temperature, request_delay, max_rate_limit_retries, rate_limit_retry_delay,
\* min_output_threshold, dpi) is validated at construction and api_key and
\* base_url are non-empty: no client exists whose configuration violates a
\* bound.
C27_AllFieldsValidated ==
    client = "constructed" =>
        /\ cfg.api_key # "" /\ cfg.base_url # ""
        /\ cfg.timeout > 0
        /\ cfg.max_tokens > 0
        /\ cfg.temperature >= 0
        /\ cfg.request_delay >= 0
        /\ cfg.max_rate_limit_retries >= 0
        /\ cfg.rate_limit_retry_delay >= 0
        /\ cfg.class = "OCRConfig" =>
               (cfg.min_output_threshold >= 0 /\ cfg.dpi \in {150, 200, 300})

\* ------------------------------------------------- claims: acquire per POST

\* the caller is between the acquire of an attempt and that attempt's POST
Acquired(c) == pc[c] \in {"pacing", "record", "post"}

\* C28: within one send() every POST, the first and each retry after a 429,
\* is preceded by its own acquire in the same attempt: between the acquire
\* and the POST of an attempt the acquires number the attempt number plus one
\* and one more than the POSTs, afterwards the acquires equal the POSTs; and
\* a retry is paced like any request: with request_delay > 0 it leaves the
\* gate no sooner than request_delay after the time the gate read, and it
\* POSTs after a time was recorded.
C28_AcquirePerPost ==
    \A c \in Callers :
        /\ Acquired(c) =>
               acquires[c] = posts[c] + 1 /\ acquires[c] = attempt[c] + 1
        /\ pc[c] \in {"inflight", "backoff", "done"} => acquires[c] = posts[c]
        /\ pc[c] \in {"inflight", "backoff"} => posts[c] = attempt[c] + 1
        /\ (attempt[c] >= 1 /\ rate_limit_applies(config.request_delay)) =>
               /\ pc[c] = "record" => now >= readVal[c] + config.request_delay
               /\ pc[c] = "record" => readVal[c] # NoTime
               /\ pc[c] = "post" => last_request_time # NoTime

\* the retry POST of a send() is in flight after a pacing wait in its own
\* passage of the gate
C28_Witness ==
    \E c \in Callers :
        /\ config.request_delay > 0
        /\ pc[c] = "inflight"
        /\ attempt[c] = 1
        /\ posts[c] = 2
        /\ acquires[c] = 2
        /\ last_request_time = lastPostTime

\* ------------------------------------------------- claims: failing pages

\* the first response of page p has no choices
NoChoicesFirst(p) == doc.script[p].first.kind = "nochoices"

\* C29: in DeepSeekOCR.parse and parse_async a first-pass 200 response whose
\* choices are missing or empty makes the page fail with APIError: no
\* fallback request is issued for that page and the document call fails.
C29_NoChoicesFailsPage ==
    (doc.flavor = "DeepSeekOCR" /\ run # "none") =>
        /\ \A p \in Pages :
               NoChoicesFirst(p) =>
                   /\ page[p].calls <= 1
                   /\ page[p].st # "fallback" /\ page[p].st # "done"
                   /\ page[p].calls = 1 /\ page[p].st # "first" =>
                          page[p] = [QueuedPage EXCEPT !.st = "failed", !.calls = 1,
                                                       !.exc = "APIError",
                                                       !.rank = page[p].rank,
                                                       !.collected = page[p].collected]
        /\ (\E p \in Pages : NoChoicesFirst(p)) =>
               /\ outcome # NoOutcome => outcome.kind = "raised"
               /\ seqOutcome # NoOutcome => seqOutcome.kind = "raised"

\* parse and parse_async have both failed on a page without choices, with
\* the fallback enabled and a threshold an empty text would fall below
C29_Witness ==
    /\ doc.flavor = "DeepSeekOCR"
    /\ doc.mode = "free_ocr"
    /\ ocr_config.fallback_enabled
    /\ ocr_config.fallback_mode \in OCRModes
    /\ ocr_config.min_output_threshold >= 1
    /\ NoChoicesFirst(1)
    /\ run = "concurrent"
    /\ seqOutcome.kind = "raised"
    /\ outcome.kind = "raised"
    /\ page[1].exc = "APIError"

\* the processing of page p raises
PageRaises(p) == doc.script[p].first.kind = "raises"

\* the text the pool variant gives page p
PoolPage(p) == IF PageRaises(p) THEN << >> ELSE Str(doc.script[p].first.content)

\* C30: in VLMClient.parse with concurrency_num > 1 and more than one page, a
\* page whose processing raises is represented by the empty string at its
\* own index: the call still returns, the other pages' texts are unaffected,
\* and the result has exactly N-1 separators.
C30_PoolSwallowsFailure ==
    (/\ doc.flavor = "VLMClient"
     /\ doc.concurrency_num > 1
     /\ doc.images > 1
     /\ run = "concurrent"
     /\ \E p \in Pages : PageRaises(p)) =>
        /\ \A p \in Pages :
               page[p].collected => all_texts[p] = PoolPage(p)
        /\ outcome # NoOutcome =>
               /\ outcome.kind = "text"
               /\ outcome.text = Interleaved([p \in Pages |-> PoolPage(p)])
               /\ Separators(outcome.text) = doc.images - 1

\* the pool call returned the text of page 2 after the empty string of the
\* page 1 that raised, page 2 having finished first
C30_Witness ==
    /\ doc.flavor = "VLMClient"
    /\ doc.concurrency_num = 2
    /\ doc.images = 2
    /\ run = "concurrent"
    /\ PageRaises(1)
    /\ page[1].rank = 2
    /\ outcome = [kind |-> "text", text |-> <<PageSeparator, "a">>, page |-> 0]

\* the task of page p ends with an exception: its first dispatcher call raises
TaskFails(p) == doc.script[p].first.kind = "raises"

\* C31: parse_async waits until every page task has finished, successfully
\* or not, and then raises the exception of the lowest-indexed failed page,
\* whatever the order in which the tasks completed.
C31_LowestFailedPageRaised ==
    (doc.flavor = "DeepSeekOCR" /\ run = "concurrent" /\ outcome # NoOutcome) =>
        /\ \A p \in Pages : Finished(p)
        /\ (\E p \in Pages : TaskFails(p)) =>
               /\ outcome.kind = "raised"
               /\ TaskFails(outcome.page)
               /\ \A q \in 1..(outcome.page - 1) : ~TaskFails(q)
               /\ page[outcome.page].exc = "DispatcherError"
        /\ (\A p \in Pages : ~TaskFails(p)) => outcome.kind = "text"

\* two pages failed, the second before the first: the exception of the
\* first is the one raised
C31_Witness ==
    /\ doc.flavor = "DeepSeekOCR"
    /\ run = "concurrent"
    /\ doc.images = 2
    /\ TaskFails(1) /\ TaskFails(2)
    /\ page[2].rank = 1 /\ page[1].rank = 2
    /\ outcome = Raised(1)

\* ------------------------------------------------ claims: sequential order

\* a request has been issued for page p
Requested(p) == page[p].calls >= 1

\* C32: sequential parse issues requests page by page in index order: the
\* first request of page i+1 is issued only after page i has finished, its
\* fallback attempt included, and once a page fails no request for any later
\* page is issued.
C32_SequentialOrder ==
    (doc.flavor = "DeepSeekOCR" /\ run = "sequential") =>
        /\ \A p \in Pages : Requested(p) => \A q \in 1..(p - 1) : page[q].st = "done"
        /\ \A q \in Pages : page[q].st = "failed" =>
               \A p \in Pages : p > q => ~Requested(p) /\ page[p].st = "queued"
        /\ Cardinality(InFlight) <= 1

\* page 2 was requested after page 1 had made its fallback call and finished
C32_Witness ==
    /\ doc.flavor = "DeepSeekOCR"
    /\ run = "sequential"
    /\ doc.images = 2
    /\ page[1].st = "done" /\ page[1].calls = 2
    /\ page[2].st = "first"

\* ------------------------------------------------ claims: waits and the lock

\* caller d stands before acquire() in an attempt of its loop
AtAcquire(d) == pc[d] = "loop" /\ attempt[d] <= config.max_rate_limit_retries

\* C33: a caller sleeping in the 429 backoff wait does not hold the
\* rate-limiter lock: while it sleeps another caller of the client can pass
\* acquire().  A caller in the pacing wait holds the lock: no other caller
\* that reaches acquire() gets past it until the waiting caller has recorded
\* its time and released the lock.
C33_BackoffFreePacingLocked ==
    \A c, d \in users :
        c # d =>
            /\ pc[c] = "backoff" => sync_lock # c
            /\ (pc[c] = "backoff" /\ AtAcquire(d) /\ sync_lock = NoOne)
                   => ENABLED EnterGate(d)
            /\ pc[c] \in {"pacing", "record"} => sync_lock = c
            /\ (pc[c] \in {"pacing", "record"} /\ AtAcquire(d))
                   => ~ENABLED EnterGate(d)
            /\ pc[c] \in {"pacing", "record"} => ~InGate(d)

\* in the middle of the two-second backoff sleep of one caller the other
\* caller has passed the gate and issued its POST
C33_Witness ==
    \E c, d \in users :
        /\ c # d
        /\ pc[c] = "backoff" /\ attempt[c] = 1 /\ wake[c] = now + 1
        /\ pc[d] = "inflight"
        /\ last_request_time = now /\ lastPostTime = now

\* a caller is kept before acquire() by another caller's pacing wait
C33_WitnessPacing ==
    \E c, d \in users :
        /\ c # d
        /\ pc[c] = "pacing"
        /\ AtAcquire(d) /\ attempt[d] = 1

\* C34: no deadlock and no starvation under fairness: with finitely many
\* callers on one client, every POST answered and fair lock acquisition,
\* every acquire() returns and every send() returns or raises; the lock is
\* released on every path out of the gate.
C34_NoStarvation ==
    /\ \A c \in Callers : (pc[c] \in {"loop", "pacing", "record"}) ~> (pc[c] = "post")
    /\ \A c \in Callers : (pc[c] \notin {"idle", "done"}) ~> Done(c)
    /\ [](\A c \in Callers : ~InGate(c) => sync_lock # c /\ async_lock # c)

\* a send() ended after its caller had been kept before acquire() by the
\* pacing wait of the other caller and had then paced itself
C34_Witness ==
    \E c, d \in users :
        /\ c # d
        /\ Done(c) /\ attempt[c] >= 1 /\ acquires[c] >= 2
        /\ Done(d)
        /\ now > MaxTime

\* --------------------------------------------- claims: the three dispatchers

C36_CleanIsComplete ==
    /\ \A i \in 1..Len(cleaned) :
           ~Contains(cleaned[i], RefTag) /\ ~Contains(cleaned[i], DetTag)
    /\ Len(cleaned) >= 2 => cleaned[2] = cleaned[1]

\* a text with a tag in it was cleaned twice and the second call changed
\* nothing
C36_Witness ==
    /\ Contains(raw_text, RefTag)
    /\ Len(cleaned) = 2
    /\ cleaned[1] = <<"a">>
    /\ cleaned[2] = cleaned[1]

\* ------------------------------------------- claims: the wait of acquire

\* the caller passes the `with` line of the gate in this step
Acquires(c) == pc[c] = "loop" /\ pc'[c] \in {"pacing", "record"}

\* C37: acquire() never waits longer than needed: the first acquire() on a
\* fresh client returns without waiting, an acquire() made when at least
\* request_delay has elapsed since the recorded last_request_time returns
\* without waiting, and otherwise the wait is exactly request_delay minus the
\* elapsed time.
C37_WaitNoLongerThanNeeded ==
    [][\A c \in Callers :
          Acquires(c) =>
              IF last_request_time = NoTime \/ now - last_request_time >= config.request_delay
              THEN pc'[c] = "record" /\ wake'[c] = wake[c]
              ELSE /\ pc'[c] = "pacing"
                   /\ wake'[c] - now = config.request_delay - (now - last_request_time)]_vars

\* a caller is behind the `with` line without a sleep: the last request was
\* recorded at least request_delay ago
C37_Witness ==
    \E c \in users :
        /\ pc[c] = "record"
        /\ sync_lock = c
        /\ readVal[c] # NoTime
        /\ readVal[c] = last_request_time
        /\ now - readVal[c] >= config.request_delay
        /\ wake[c] = 0

\* the first acquire() of a fresh client, without a sleep
C37_WitnessFirst ==
    \E c \in users : pc[c] = "record" /\ readVal[c] = NoTime /\ sends = 1 /\ wake[c] = 0

\* a caller sleeps for request_delay minus the elapsed time
C37_WitnessWait ==
    \E c \in users :
        /\ pc[c] = "pacing"
        /\ readVal[c] # NoTime
        /\ wake[c] = readVal[c] + config.request_delay
        /\ wake[c] > now

\* ------------------------------------------- claims: the batch processor

\* C38: process_batch keeps the number of concurrent requests at or below
\* max_concurrent: at no time during a batch are more than max_concurrent
\* API requests in flight through the client, for any number of files and
\* pages per file.
C38_RequestsWithinMaxConcurrent ==
    SumRequestsInFlight(BatchFiles) <= batch.max_concurrent

\* the semaphore does what it counts: at most max_concurrent documents are
\* inside it
C38_DocumentsWithinMaxConcurrent == Cardinality(Holding) <= batch.max_concurrent

\* C39: _process_single calls parse_async at most retry_count + 1 times for
\* a document, stops at the first success, and never raises: when all
\* attempts fail it returns BatchResult(success=False) carrying the message
\* of the last error, so one document's failure never aborts the batch.
C39_ProcessSingle ==
    /\ [](\A f \in BatchFiles :
             /\ task[f].calls <= batch.retry_count + 1
             /\ task[f].st = "done" =>
                    /\ task[f].returned.file = f
                    /\ task[f].returned.success => task[f].returned.error = 0
                    /\ ~task[f].returned.success =>
                           /\ task[f].calls = batch.retry_count + 1
                           /\ task[f].returned.error = task[f].calls
             /\ (task[f].st # "done" /\ (\E g \in BatchFiles : task[g].st = "done")) =>
                    \/ ENABLED (Enter(f) \/ PostPage(f) \/ AnswerPage(f)
                                \/ ParseReturns(f) \/ ParseRaises(f) \/ Retry(f))
                    \/ task[f].st = "waiting" /\ Cardinality(Holding) = batch.max_concurrent)
    /\ [][\A f \in BatchFiles :
             task[f].st = "done" => task'[f] = task[f]]_vars

\* both attempts of one document failed and it returned the second error,
\* and the other document of the batch was processed after that
C39_Witness ==
    \E f, g \in BatchFiles :
        /\ f # g
        /\ batch.retry_count = 1
        /\ batch.show_progress
        /\ task[f].st = "done" /\ task[g].st = "done"
        /\ task[f].calls = 2
        /\ task[f].returned = [file |-> f, success |-> FALSE, error |-> 2]
        /\ task[g].returned.success
        /\ batch_results = <<task[f].returned, task[g].returned>>

\* C40: process_batch returns a summary with exactly one BatchResult per
\* input file and total = number of input files = successful + failed, for
\* every mix of successes and failures and both values of show_progress; an
\* empty input gives total = successful = failed = 0.
C40_SummaryCounts ==
    IF summary.returned
    THEN /\ Len(batch_results) = Len(batch.files)
         /\ \A f \in BatchFiles :
                Cardinality({i \in 1..Len(batch_results) : batch_results[i].file = f}) = 1
         /\ summary.total = Len(batch.files)
         /\ summary.total = summary.successful + summary.failed
         /\ summary.successful >= 0 /\ summary.failed >= 0
         /\ batch.files = << >> =>
                summary.total = 0 /\ summary.successful = 0 /\ summary.failed = 0
    ELSE summary = NoSummary

\* a batch without the progress loop returned one success and one failure
C40_Witness ==
    /\ summary.returned
    /\ ~batch.show_progress
    /\ Len(batch.files) = 2
    /\ summary = [total |-> 2, successful |-> 1, failed |-> 1, returned |-> TRUE]
    /\ batch_results[1].success /\ ~batch_results[2].success

\* the progress loop returned the results in the order of completion
C40_WitnessProgress ==
    /\ summary.returned
    /\ batch.show_progress
    /\ Len(batch.files) = 2
    /\ batch_results[1].file = 2
    /\ summary.successful = 1 /\ summary.failed = 1

\* an empty batch returned
C40_WitnessEmpty == summary.returned /\ batch.files = << >>

====
